---- MODULE Spec2Model ----
(***************************************************************************)
(* A model of the rating engine of three-of-spades: PlayerProfile and      *)
(* compute_overall_rankings of process_data.py (and the website variant    *)
(* built on utils/Player.py), fed tournament by tournament and round by    *)
(* round.                                                                  *)
(*                                                                         *)
(* Ratings are floats rounded to 2 decimals after every update; the model  *)
(* keeps them as integer hundredths (1000.60 is 100060).  A rating change  *)
(* is an exact fraction of hundredths, rounded to the nearest integer; a   *)
(* change that falls exactly between two hundredths is rounded by the      *)
(* binary representation of the float, which the model leaves open (either *)
(* neighbour).                                                             *)
(*                                                                         *)
(* Python objects live in `heap`, addressed by references, so that a copy  *)
(* and an alias are different things.  A dict is a sequence of <<key,      *)
(* reference>> pairs in insertion order.                                   *)
(***************************************************************************)
EXTENDS Integers, Sequences, FiniteSets, TLC

\* ---------------------------------------------------------------- bounds
\* entries of the chronological tournament list
MaxTourneys == 2
\* rounds fed over the whole run by the wide feed
MaxGames == 2
\* rounds fed over the whole run by the deep (head-to-head) feed
MaxDeepRows == 12

\* ------------------------------------------------------- program constants
BASE_RATING == 1000
DENOMINATOR == 200

None == "None"
\* an optional number is the empty set (None, or the rank "-") or {number}
Absent == {}
Some(v) == {v}
ValueOf(o) == CHOOSE v \in o : TRUE
NoTournament == <<"None", 0>>
CORE_PLAYERS == <<"A", "B">>

\* ------------------------------------------------------------ the feed
Feeds == {"wide", "deep"}

\* TOURNAMENT_LIST_CHRONOLOGICAL, shortened: entry i is (type, number)
TourneyType(i) == IF i % 2 = 1 THEN "championship" ELSE "mini_championship"
TourneyNumber(i) == (i + 1) \div 2
TourneyTypes == {"championship", "mini_championship"}

\* TOURNAMENT_WEIGHTS, as a fraction
TOURNAMENT_WEIGHTS(type) ==
    IF type = "championship" THEN [num |-> 4, den |-> 4] ELSE [num |-> 3, den |-> 4]

SeqToSet(s) == {s[i] : i \in DOMAIN s}

\* what load_tournament_raw can return for a tournament: the player columns
\* in file order, whether the file has a Bidder column, and (the bound on the
\* data) the scores each player column can hold
Headers(f) ==
    IF f = "wide"
    THEN { [players |-> <<"B", "A", "C">>, hasBidder |-> TRUE,
            scores |-> [p \in {"A", "B", "C"} |->
                          IF p = "A" THEN {0, 80, 120}
                          ELSE IF p = "B" THEN {0, 80} ELSE {0}]],
           [players |-> <<"C", "A">>, hasBidder |-> FALSE,
            scores |-> [p \in {"A", "C"} |-> {0, 80}]],
           [players |-> <<"A", "B">>, hasBidder |-> FALSE,
            scores |-> [p \in {"A", "B"} |-> {0, 80}]] }
    ELSE { [players |-> <<"A", "B">>, hasBidder |-> FALSE,
            scores |-> [p \in {"A", "B"} |-> {0, 80}]] }

\* the cells of the Bidder column, where the file has one
BidderCells(hasBidder) == IF hasBidder THEN {"A"} ELSE {None}

\* the rows a file of header h can hold next, after the rows `rs`; a file of
\* the deep feed holds only rounds with exactly one winner, and its winner
\* changes at most once
Rows(f, h, rs) ==
    LET P == SeqToSet(h.players)
        S == {s \in [P -> {0, 80, 120}] : \A p \in P : s[p] \in h.scores[p]}
        changes == Cardinality({i \in 1..(Len(rs) - 1) : rs[i] # rs[i + 1]})
        T == IF f = "deep"
             THEN {s \in S : /\ Cardinality({p \in P : s[p] > 0}) = 1
                             /\ (changes > 0 /\ rs # <<>>) => s = rs[Len(rs)].scores}
             ELSE S
    IN  {[scores |-> s, bidder |-> b] : s \in T, b \in BidderCells(h.hasBidder)}

\* ------------------------------------------------------------ helpers
Max(a, b) == IF a >= b THEN a ELSE b
Min(a, b) == IF a <= b THEN a ELSE b

RECURSIVE SumSeq(_)
SumSeq(s) == IF s = <<>> THEN 0 ELSE Head(s) + SumSeq(Tail(s))

RECURSIVE MinSeq(_)
MinSeq(s) == IF Len(s) = 1 THEN s[1] ELSE Min(Head(s), MinSeq(Tail(s)))

\* dicts in insertion order
Keys(d) == {d[i][1] : i \in DOMAIN d}
Get(d, k) == d[CHOOSE i \in DOMAIN d : d[i][1] = k][2]
Refs(d) == {d[i][2] : i \in DOMAIN d}

\* round(x) of the fraction num/den >= 0 to the nearest integer; `up` settles
\* an exact half
RoundNearest(num, den, up) ==
    LET f == num \div den
        r == num % den
    IN  IF 2 * r > den \/ (2 * r = den /\ up) THEN f + 1 ELSE f

IsTie(num, den) == 2 * (num % den) = den

\* round half to even, for values whose halves are exact in binary
RoundHalfEven(num, den) ==
    RoundNearest(num, den, (num \div den) % 2 = 1)

\* -------------------------------------------------------- PlayerProfile
\* variant: a new profile starts unrated, at 0
PlayerProfile_unrated(name) ==
    [name |-> name, rating |-> 0,
     bidAndWon |-> 0, bidAttempts |-> 0, bidWins |-> 0,
     careerGames |-> 0, careerWins |-> 0,
     winStreak |-> 0, bestWinStreak |-> 0,
     lossStreak |-> 0, worstLossStreak |-> 0,
     currentTournament |-> NoTournament,
     numFivles |-> 0, numTenples |-> 0, fiveMottes |-> 0]

PlayerProfile(name) ==
    [name |-> name, rating |-> BASE_RATING * 100,
     bidAndWon |-> 0, bidAttempts |-> 0, bidWins |-> 0,
     careerGames |-> 0, careerWins |-> 0,
     winStreak |-> 0, bestWinStreak |-> 0,
     lossStreak |-> 0, worstLossStreak |-> 0,
     currentTournament |-> NoTournament,
     numFivles |-> 0, numTenples |-> 0, fiveMottes |-> 0]

\* variant: the tournament key is updated but the running streaks are kept
new_tournament_start_keep(self, tourney_key) ==
    [self EXCEPT !.currentTournament = tourney_key]

\* variant: the boundary clears the best and worst streaks as well
new_tournament_start_clear(self, tourney_key) ==
    [self EXCEPT !.currentTournament = tourney_key,
                 !.winStreak = 0,
                 !.lossStreak = 0,
                 !.bestWinStreak = 0,
                 !.worstLossStreak = 0]

new_tournament_start(self, tourney_key) ==
    [self EXCEPT !.currentTournament = tourney_key,
                 !.winStreak = 0,
                 !.lossStreak = 0]

\* variant: the best and worst streaks are brought up to date before the
\* running streak is incremented
record_streaks_stale_best(self, is_win) ==
    IF is_win
    THEN LET ws == self.winStreak + 1
         IN  [self EXCEPT !.lossStreak = 0,
                          !.winStreak = ws,
                          !.bestWinStreak = Max(self.winStreak, self.bestWinStreak),
                          !.numFivles = IF ws = 5 THEN @ + 1 ELSE @,
                          !.numTenples = IF ws = 10 THEN @ + 1 ELSE @]
    ELSE LET ls == self.lossStreak + 1
         IN  [self EXCEPT !.winStreak = 0,
                          !.lossStreak = ls,
                          !.worstLossStreak = Max(self.lossStreak, self.worstLossStreak),
                          !.fiveMottes = IF ls = 5 THEN @ + 1 ELSE @]

\* variant: the opposite streak is not reset
record_streaks_no_reset(self, is_win) ==
    IF is_win
    THEN LET ws == self.winStreak + 1
         IN  [self EXCEPT !.winStreak = ws,
                          !.bestWinStreak = Max(ws, self.bestWinStreak),
                          !.numFivles = IF ws = 5 THEN @ + 1 ELSE @,
                          !.numTenples = IF ws = 10 THEN @ + 1 ELSE @]
    ELSE LET ls == self.lossStreak + 1
         IN  [self EXCEPT !.lossStreak = ls,
                          !.worstLossStreak = Max(ls, self.worstLossStreak),
                          !.fiveMottes = IF ls = 5 THEN @ + 1 ELSE @]

\* variant: level-triggered milestones (>= instead of ==)
record_streaks_level(self, is_win) ==
    IF is_win
    THEN LET ws == self.winStreak + 1
         IN  [self EXCEPT !.lossStreak = 0,
                          !.winStreak = ws,
                          !.bestWinStreak = Max(ws, self.bestWinStreak),
                          !.numFivles = IF ws >= 5 THEN @ + 1 ELSE @,
                          !.numTenples = IF ws >= 10 THEN @ + 1 ELSE @]
    ELSE LET ls == self.lossStreak + 1
         IN  [self EXCEPT !.winStreak = 0,
                          !.lossStreak = ls,
                          !.worstLossStreak = Max(ls, self.worstLossStreak),
                          !.fiveMottes = IF ls >= 5 THEN @ + 1 ELSE @]

record_streaks(self, is_win) ==
    IF is_win
    THEN LET ws == self.winStreak + 1
         IN  [self EXCEPT !.lossStreak = 0,
                          !.winStreak = ws,
                          !.bestWinStreak = Max(ws, self.bestWinStreak),
                          !.numFivles = IF ws = 5 THEN @ + 1 ELSE @,
                          !.numTenples = IF ws = 10 THEN @ + 1 ELSE @]
    ELSE LET ls == self.lossStreak + 1
         IN  [self EXCEPT !.winStreak = 0,
                          !.lossStreak = ls,
                          !.worstLossStreak = Max(ls, self.worstLossStreak),
                          !.fiveMottes = IF ls = 5 THEN @ + 1 ELSE @]

\* variant: a loss moves the rating but is not counted as a game
register_result_uncounted_loss(self, adjusted_points, is_win, bid_and_won, up) ==
    LET d == RoundNearest(adjusted_points.num, adjusted_points.den, up)
    IN  IF is_win
        THEN [self EXCEPT !.careerGames = @ + 1,
                          !.careerWins = @ + 1,
                          !.rating = @ + d,
                          !.bidAndWon = IF bid_and_won THEN @ + 1 ELSE @]
        ELSE [self EXCEPT !.rating = @ - d]

\* adjusted_points is a fraction of hundredths; `up` settles round(rating, 2)
\* when the new rating falls exactly between two hundredths
register_result(self, adjusted_points, is_win, bid_and_won, up) ==
    LET d == RoundNearest(adjusted_points.num, adjusted_points.den, up)
    IN  IF is_win
        THEN [self EXCEPT !.careerGames = @ + 1,
                          !.careerWins = @ + 1,
                          !.rating = @ + d,
                          !.bidAndWon = IF bid_and_won THEN @ + 1 ELSE @]
        ELSE [self EXCEPT !.careerGames = @ + 1,
                          !.rating = @ - d]

\* variant: a bid that was lost is not counted as an attempt
register_bid_won_only(self, is_named_bidder, named_bid_won) ==
    IF is_named_bidder /\ named_bid_won
    THEN [self EXCEPT !.bidAttempts = @ + 1, !.bidWins = @ + 1]
    ELSE self

register_bid(self, is_named_bidder, named_bid_won) ==
    IF is_named_bidder
    THEN [self EXCEPT !.bidAttempts = @ + 1,
                      !.bidWins = IF named_bid_won THEN @ + 1 ELSE @]
    ELSE self

register_game(self, tourney_key, adjusted_points, is_win, bid_and_won, is_named_bidder, named_bid_won, up) ==
    LET s0 == IF tourney_key # self.currentTournament
              THEN new_tournament_start(self, tourney_key)
              ELSE self
        s1 == register_result(s0, adjusted_points, is_win, bid_and_won, up)
        s2 == register_bid(s1, is_named_bidder, named_bid_won)
    IN  record_streaks(s2, is_win)

\* int(100.0 * careerWins / careerGames) if careerGames else 0
win_percentage(self) ==
    IF self.careerGames # 0 THEN (100 * self.careerWins) \div self.careerGames ELSE 0

bid_and_won_percentage(self) ==
    IF self.careerGames # 0 THEN (100 * self.bidAndWon) \div self.careerGames ELSE 0

\* variant: the guard looks at bidWins instead of bidAttempts
bid_win_rate_by_wins(self) ==
    IF self.bidWins = 0
    THEN Absent
    ELSE Some(RoundHalfEven(1000 * self.bidWins, self.bidAttempts))

\* None without bid data, else the rate in tenths of a percent
bid_win_rate(self) ==
    IF self.bidAttempts = 0
    THEN Absent
    ELSE Some(RoundHalfEven(1000 * self.bidWins, self.bidAttempts))

\* variant: the "snapshot" is the live object itself
snapshot_alias(self_ref, fresh) == self_ref

\* copy.copy(self): a new object `fresh` with the same field values
snapshot(self_ref, fresh) == fresh

\* utils/Player.py: int(100.0 * (careerWins / careerGames)), no guard: the
\* division raises ZeroDivisionError when careerGames is 0
winPercentage(self) ==
    IF self.careerGames = 0
    THEN [raised |-> TRUE, value |-> 0]
    ELSE [raised |-> FALSE, value |-> (100 * self.careerWins) \div self.careerGames]

bidAndWonPercentage(self) ==
    IF self.careerGames = 0
    THEN [raised |-> TRUE, value |-> 0]
    ELSE [raised |-> FALSE, value |-> (100 * self.bidAndWon) \div self.careerGames]

\* --------------------------------------------------------- the multiplier
\* variant: rating_diff / BASE_RATING is not winsorized
get_adjustment_multiplier_unclamped(rating_diff, weight) ==
    LET D == rating_diff.den * 100 * BASE_RATING
    IN  [num |-> weight.num * (2 * D - 2 * rating_diff.num),
         den |-> (weight.den * DENOMINATOR * 2 * D) \div 100]

\* rating_diff is a fraction of hundredths, weight a fraction; the result is
\* the multiplier in hundredths of rating per point
get_adjustment_multiplier(rating_diff, weight) ==
    LET D  == rating_diff.den * 100 * BASE_RATING
        \* twice the winsorized ratio, over D
        w2 == Max(-D, Min(D, 2 * rating_diff.num))
    IN  [num |-> weight.num * (2 * D - w2),
         den |-> (weight.den * DENOMINATOR * 2 * D) \div 100]

Times(pts, mult) == [num |-> pts * mult.num, den |-> mult.den]


\* ------------------------------------------------------------- the state
VARIABLES
    feed,               \* which input data the run reads
    li,                 \* entries of the chronological list already visited
    fed,                \* rounds fed so far, over all tournaments
    type_counters,      \* process_all_tournaments: tournaments loaded, per type
    pc,                 \* "idle" between tournaments, "rounds" inside one, "done"
    tourney,            \* the tournament being processed (or the last one)
    rows,               \* the rows of its raw_df iterated so far
    heap,               \* reference -> PlayerProfile object
    player_map,         \* dict name -> live profile
    before_snapshot,    \* dict name -> copy taken before the tournament
    after_snapshot,     \* dict name -> copy taken after the tournament
    tourney_snapshots,  \* tourney_id -> (player -> snapshot entry)
    web_snapshots,      \* the same, as website/process_data.py builds it
    web_error,          \* the website run has raised
    bid_stats,          \* tourney_id -> bidStatsByPlayer
    rating_history,     \* core player -> ratings in tenths
    rankings,           \* the final rankings list
    raw_df,             \* the rows of the tournament sheet handed to the statistics
    stats_pc,           \* "read" while the sheet is loaded, "done" once crunched
    stats,              \* the statistics of the sheet (process_all_tournaments)
    urs                 \* the UniversalRatingSystem object and its caller's position

\* the state of the rankings run, and the state outside it
main_vars == <<feed, li, fed, type_counters, pc, tourney, rows, heap, player_map,
               before_snapshot, after_snapshot, tourney_snapshots, web_snapshots,
               web_error, bid_stats, rating_history, rankings>>
stats_vars == <<raw_df, stats_pc, stats>>
side_vars == <<stats_vars, urs>>
vars == <<main_vars, side_vars>>

\* the columns of the sheet the statistics are computed on, in file order
StatsPlayers == <<"B", "A", "C">>

\* no statistics computed yet
NoStats ==
    [pw_agg |-> <<>>, pairwise |-> <<>>, trio_agg |-> <<>>, trio |-> <<>>,
     bid_and_won |-> [p \in SeqToSet(StatsPlayers) |-> 0],
     cruncher_bid_and_won |->
         [raised |-> FALSE, counts |-> [p \in SeqToSet(StatsPlayers) |-> 0]]]

\* UniversalRatingSystem.__init__, nothing called yet; history holds the
\* rounds handed to record_game
NoUrs ==
    [pc |-> "idle", player_map |-> [x \in {} |-> 0], tournaments |-> <<>>,
     players |-> <<>>, fed |-> 0, history |-> <<>>,
     preTournamentRatings |-> [x \in {} |-> 0],
     postTournamentRatings |-> [x \in {} |-> 0]]

Live(name) == <<"live", 0, name>>
Prof(name) == heap[Get(player_map, name)]

EmptyMap == [x \in {} |-> 0]

Init ==
    /\ feed \in Feeds
    /\ li = 0
    /\ fed = 0
    /\ type_counters = [t \in TourneyTypes |-> 0]
    /\ pc = "idle"
    /\ tourney = [id |-> NoTournament, key |-> NoTournament, type |-> None,
                  players |-> <<>>, hasBidder |-> FALSE, scores |-> EmptyMap]
    /\ rows = <<>>
    /\ heap = EmptyMap
    /\ player_map = <<>>
    /\ before_snapshot = <<>>
    /\ after_snapshot = <<>>
    /\ tourney_snapshots = EmptyMap
    /\ web_snapshots = EmptyMap
    /\ web_error = FALSE
    /\ bid_stats = EmptyMap
    /\ rating_history = [p \in SeqToSet(CORE_PLAYERS) |-> <<BASE_RATING * 10>>]
    /\ rankings = <<>>
    /\ raw_df = <<>>
    /\ stats_pc = "read"
    /\ stats = NoStats
    /\ urs = NoUrs

\* ------------------------------------------------------- taking snapshots
\* {name: prof.snapshot() for name, prof in d.items()}
SnapshotDict(d, kind, gen) ==
    [i \in DOMAIN d |-> <<d[i][1], snapshot(d[i][2], <<kind, gen, d[i][1]>>)>>]

\* the heap once the objects of the dict `sd`, copied from `d`, exist and the
\* objects `dropped` are garbage
HeapWith(h, d, sd, dropped) ==
    LET made == Refs(sd) \ DOMAIN h
        kept == DOMAIN h \ (dropped \ Refs(sd))
    IN  [r \in kept \cup made |->
            IF r \in DOMAIN h
            THEN h[r]
            ELSE h[d[CHOOSE i \in DOMAIN sd : sd[i][2] = r][2]]]

\* get_profile(p) for every p of `players`, in order
RECURSIVE RegisterAll(_, _)
RegisterAll(pm, players) ==
    IF players = <<>>
    THEN pm
    ELSE LET p == Head(players)
         IN  RegisterAll(IF p \in Keys(pm) THEN pm ELSE Append(pm, <<p, Live(p)>>),
                         Tail(players))

\* ------------------------------------------------------------ the actions
\* process_all_tournaments: the file of the next list entry is missing
SkipMissing ==
    /\ pc = "idle"
    /\ li < MaxTourneys
    /\ li' = li + 1
    /\ UNCHANGED <<feed, fed, type_counters, pc, tourney, rows, heap, player_map,
                   before_snapshot, after_snapshot, tourney_snapshots,
                   web_snapshots, web_error, bid_stats, rating_history, rankings>>
    /\ UNCHANGED side_vars

\* the next list entry is loaded and compute_overall_rankings enters it:
\* snapshot BEFORE, then every player of the tournament is registered
StartTournament(h) ==
    /\ pc = "idle"
    /\ li < MaxTourneys
    /\ LET type == TourneyType(li + 1)
           tc   == [type_counters EXCEPT ![type] = @ + 1]
           bs   == SnapshotDict(player_map, "before", li + 1)
           pm   == RegisterAll(player_map, h.players)
           h1   == HeapWith(heap, player_map, bs, Refs(before_snapshot))
       IN  /\ type_counters' = tc
           /\ tourney' = [id |-> <<type, TourneyNumber(li + 1)>>,
                          key |-> <<type, tc[type]>>,
                          type |-> type,
                          players |-> h.players,
                          hasBidder |-> h.hasBidder,
                          scores |-> h.scores]
           /\ before_snapshot' = bs
           /\ player_map' = pm
           /\ heap' = [r \in DOMAIN h1 \cup Refs(pm) |->
                          IF r \in DOMAIN h1 THEN h1[r] ELSE PlayerProfile(r[3])]
    /\ rows' = <<>>
    /\ pc' = "rounds"
    /\ UNCHANGED <<feed, li, fed, after_snapshot, tourney_snapshots, web_snapshots,
                   web_error, bid_stats, rating_history, rankings>>
    /\ UNCHANGED side_vars

\* str(row["Bidder"]).strip() if has_bidder_col else None
named_bidder(row, has_bidder_col) == IF has_bidder_col THEN row.bidder ELSE None

winning_team(row, players) == SelectSeq(players, LAMBDA p : row.scores[p] > 0)
losing_team(row, players) == SelectSeq(players, LAMBDA p : ~(row.scores[p] > 0))
winning_points(row, players) ==
    LET w == winning_team(row, players) IN [i \in DOMAIN w |-> row.scores[w[i]]]

Skipped(row, players) ==
    winning_team(row, players) = <<>> \/ losing_team(row, players) = <<>>

\* avg_win_r - avg_lose_r over the ratings in heap h, a fraction of hundredths
rating_diff(h, pm, row, players) ==
    LET w  == winning_team(row, players)
        l  == losing_team(row, players)
        sw == SumSeq([i \in DOMAIN w |-> h[Get(pm, w[i])].rating])
        sl == SumSeq([i \in DOMAIN l |-> h[Get(pm, l[i])].rating])
    IN  [num |-> sw * Len(l) - sl * Len(w), den |-> Len(w) * Len(l)]

\* variant: the multiplier is taken from the ratings as they are once the
\* winners of the round have been credited
adj_mult_after_winners(h, pm, row, t) ==
    LET m0 == get_adjustment_multiplier(rating_diff(h, pm, row, t.players),
                                        TOURNAMENT_WEIGHTS(t.type))
        W  == SeqToSet(winning_team(row, t.players))
        h1 == [r \in DOMAIN h |->
                 IF \E p \in W : Get(pm, p) = r
                 THEN LET p == CHOOSE q \in W : Get(pm, q) = r
                      IN  [h[r] EXCEPT !.rating =
                              @ + RoundNearest(row.scores[p] * m0.num, m0.den, FALSE)]
                 ELSE h[r]]
    IN  get_adjustment_multiplier(rating_diff(h1, pm, row, t.players),
                                  TOURNAMENT_WEIGHTS(t.type))

adj_mult(h, pm, row, t) ==
    get_adjustment_multiplier(rating_diff(h, pm, row, t.players),
                              TOURNAMENT_WEIGHTS(t.type))

\* variant: losers are charged the highest winning score
adjusted_points_top(row, players, p, mult) ==
    LET wp  == winning_points(row, players)
        top == -MinSeq([i \in DOMAIN wp |-> -wp[i]])
        pts == IF row.scores[p] > 0 THEN row.scores[p] ELSE top
    IN  Times(pts, mult)

\* variant: zero-sum, the losers share what the winners gain
adjusted_points_zero_sum(row, players, p, mult) ==
    LET wp  == winning_points(row, players)
        pts == IF row.scores[p] > 0 THEN row.scores[p] ELSE SumSeq(wp)
    IN  IF row.scores[p] > 0
        THEN Times(pts, mult)
        ELSE [num |-> pts * mult.num,
              den |-> mult.den * Len(losing_team(row, players))]

\* the points a player's rating moves by in this round, before rounding:
\* pts * adj_mult for a winner, bid * adj_mult for a loser
adjusted_points(row, players, p, mult) ==
    LET bid == MinSeq(winning_points(row, players))
        pts == IF row.scores[p] > 0 THEN row.scores[p] ELSE bid
    IN  Times(pts, mult)

\* variant: a winner at the bid itself is credited with bidAndWon too
Registered_at_bid(self, row, t, p, mult, up) ==
    LET is_win == row.scores[p] > 0
        bid == MinSeq(winning_points(row, t.players))
        is_named_bidder == t.hasBidder /\ p = named_bidder(row, t.hasBidder)
    IN  register_game(self, t.key, adjusted_points(row, t.players, p, mult),
                      is_win, is_win /\ row.scores[p] >= bid,
                      is_named_bidder, is_win /\ is_named_bidder, up)

\* the profile `self` of player p after the round
Registered(self, row, t, p, mult, up) ==
    LET is_win == row.scores[p] > 0
        bid == MinSeq(winning_points(row, t.players))
        is_named_bidder == t.hasBidder /\ p = named_bidder(row, t.hasBidder)
    IN  register_game(self, t.key, adjusted_points(row, t.players, p, mult),
                      is_win, is_win /\ row.scores[p] > bid,
                      is_named_bidder, is_win /\ is_named_bidder, up)

\* variant: a skipped round still counts the named bidder's attempt
skipped_round_counts_bid(h, pm, row, t) ==
    [r \in DOMAIN h |->
        IF \E p \in SeqToSet(t.players) :
              Get(pm, p) = r /\ t.hasBidder /\ p = named_bidder(row, t.hasBidder)
        THEN [h[r] EXCEPT !.bidAttempts = @ + 1]
        ELSE h[r]]

\* "if not winning_team or not losing_team: continue": no profile is touched
skipped_round(h, pm, row, t) == h

RowBudget == IF feed = "deep" THEN MaxDeepRows ELSE MaxGames

\* one iteration of "for _, row in raw_df.iterrows()"
Round(row) ==
    /\ pc = "rounds"
    /\ fed < RowBudget
    /\ rows' = Append(rows, row)
    /\ fed' = fed + 1
    /\ IF Skipped(row, tourney.players)
       THEN heap' = skipped_round(heap, player_map, row, tourney)
       ELSE LET P == SeqToSet(tourney.players)
                mult == adj_mult(heap, player_map, row, tourney)
                pts == [p \in P |-> adjusted_points(row, tourney.players, p, mult)]
                ties == {p \in P : IsTie(pts[p].num, pts[p].den)}
            IN  \E up \in [ties -> BOOLEAN] :
                  heap' = [r \in DOMAIN heap |->
                             IF \E p \in P : Get(player_map, p) = r
                             THEN LET p == CHOOSE q \in P : Get(player_map, q) = r
                                  IN  Registered(heap[r], row, tourney, p, mult,
                                                 p \in ties /\ up[p])
                             ELSE heap[r]]
    /\ UNCHANGED <<feed, li, type_counters, pc, tourney, player_map,
                   before_snapshot, after_snapshot, tourney_snapshots,
                   web_snapshots, web_error, bid_stats, rating_history, rankings>>
    /\ UNCHANGED side_vars


\* variant: every player of the dict is ranked, guests included
rank_core_all(h, snap) ==
    LET r(i) == h[snap[i][2]].rating
        ahead(i) == {j \in DOMAIN snap : r(j) > r(i) \/ (r(j) = r(i) /\ j < i)}
    IN  [n \in {snap[i][1] : i \in DOMAIN snap} |->
            LET i == CHOOSE j \in DOMAIN snap : snap[j][1] = n
            IN  Cardinality(ahead(i)) + 1]

\* rank_core(snapshot): core players of the dict, by descending rating; the
\* sort is stable, so equal ratings keep the dict's order
rank_core(h, snap) ==
    LET core == {i \in DOMAIN snap : snap[i][1] \in SeqToSet(CORE_PLAYERS)}
        r(i) == h[snap[i][2]].rating
        ahead(i) == {j \in core : r(j) > r(i) \/ (r(j) = r(i) /\ j < i)}
    IN  [n \in {snap[i][1] : i \in core} |->
            LET i == CHOOSE j \in core : snap[j][1] = n
            IN  Cardinality(ahead(i)) + 1]

\* variant: only the core players get an entry
snapshot_players_core(players) == CORE_PLAYERS

guest_players(players) == SelectSeq(players, LAMBDA p : p \notin SeqToSet(CORE_PLAYERS))
snapshot_players(players) == CORE_PLAYERS \o guest_players(players)

\* the players that get an entry in the tournament's snapshot map
SnapNames(players, after) ==
    {p \in SeqToSet(snapshot_players(players)) : p \in Keys(after)}

\* int(rating): the rating in whole points
IntRating(rating) == rating \div 100

\* snap[p] of process_data.py
SnapEntry(h, players, before, after, p) ==
    LET has_before == p \in Keys(before)
        after_r == h[Get(after, p)]
        old_rating == IF has_before THEN IntRating(h[Get(before, p)].rating)
                      ELSE BASE_RATING
        new_rating == IntRating(after_r.rating)
        is_guest == p \in SeqToSet(guest_players(players))
        before_ranks == rank_core(h, before)
        after_ranks == rank_core(h, after)
        old_rank == IF ~is_guest /\ p \in DOMAIN before_ranks
                    THEN Some(before_ranks[p]) ELSE Absent
        new_rank == IF ~is_guest /\ p \in DOMAIN after_ranks
                    THEN Some(after_ranks[p]) ELSE Absent
    IN  [ratingBefore |-> old_rating,
         ratingAfter |-> new_rating,
         ratingChange |-> new_rating - old_rating,
         rankBefore |-> old_rank,
         rankAfter |-> new_rank,
         rankChange |-> IF old_rank # Absent /\ new_rank # Absent
                        THEN ValueOf(old_rank) - ValueOf(new_rank) ELSE 0,
         careerGames |-> after_r.careerGames,
         winPct |-> win_percentage(after_r),
         bidAndWonPct |-> bid_and_won_percentage(after_r),
         bidAttempts |-> after_r.bidAttempts,
         bidWins |-> after_r.bidWins,
         bidWinRate |-> bid_win_rate(after_r),
         bestWinStreak |-> after_r.bestWinStreak,
         worstLossStreak |-> after_r.worstLossStreak,
         numFivles |-> after_r.numFivles,
         numTenples |-> after_r.numTenples,
         fiveMottes |-> after_r.fiveMottes,
         isGuest |-> is_guest]

\* variant: the milestone "deltas" are the career totals
WebSnapEntry_totals(h, players, before, after, p) ==
    LET has_before == p \in Keys(before)
        a == h[Get(after, p)]
        old_rating == IF has_before THEN IntRating(h[Get(before, p)].rating)
                      ELSE BASE_RATING
        new_rating == IntRating(a.rating)
    IN  [ratingBefore |-> old_rating,
         ratingAfter |-> new_rating,
         ratingChange |-> new_rating - old_rating,
         winPct |-> winPercentage(a).value,
         bidAndWonPct |-> bidAndWonPercentage(a).value,
         numFivles |-> a.numFivles,
         numTenples |-> a.numTenples,
         fiveMottes |-> a.fiveMottes,
         fivplesThisTourney |-> a.numFivles,
         tenplesThisTourney |-> a.numTenples,
         fiveMottesThisTourney |-> a.fiveMottes]

\* snap[p] of website/process_data.py: the percentages of utils/Player.py and
\* the per-tournament milestone deltas
WebSnapEntry(h, players, before, after, p) ==
    LET has_before == p \in Keys(before)
        a == h[Get(after, p)]
        old_rating == IF has_before THEN IntRating(h[Get(before, p)].rating)
                      ELSE BASE_RATING
        new_rating == IntRating(a.rating)
    IN  [ratingBefore |-> old_rating,
         ratingAfter |-> new_rating,
         ratingChange |-> new_rating - old_rating,
         winPct |-> winPercentage(a).value,
         bidAndWonPct |-> bidAndWonPercentage(a).value,
         numFivles |-> a.numFivles,
         numTenples |-> a.numTenples,
         fiveMottes |-> a.fiveMottes,
         fivplesThisTourney |->
             a.numFivles - (IF has_before THEN h[Get(before, p)].numFivles ELSE 0),
         tenplesThisTourney |->
             a.numTenples - (IF has_before THEN h[Get(before, p)].numTenples ELSE 0),
         fiveMottesThisTourney |->
             a.fiveMottes - (IF has_before THEN h[Get(before, p)].fiveMottes ELSE 0)]

WebRaises(h, players, after) ==
    \E p \in SnapNames(players, after) :
        winPercentage(h[Get(after, p)]).raised
        \/ bidAndWonPercentage(h[Get(after, p)]).raised

\* process_all_tournaments: bid_stats_by_player of a tournament with a Bidder
\* column, from all its rows
bid_stats_by_player(rs, players) ==
    [p \in SeqToSet(players) |->
        LET attempts == Cardinality({i \in DOMAIN rs : rs[i].bidder = p})
            wins == Cardinality({i \in DOMAIN rs :
                                    rs[i].bidder = p /\ rs[i].scores[p] > 0})
        IN  [bidAttempts |-> attempts,
             bidWins |-> wins,
             bidWinRate |-> IF attempts > 0
                            THEN Some(RoundHalfEven(1000 * wins, attempts))
                            ELSE Absent]]

\* utils/data_cruncher.py: the same statistics; rows whose bidder is missing or
\* is no player of the tournament are passed over
get_named_bid_stats(rs, players) ==
    LET counted == {i \in DOMAIN rs : rs[i].bidder \in SeqToSet(players)}
    IN  [p \in SeqToSet(players) |->
            LET attempts == Cardinality({i \in counted : rs[i].bidder = p})
                wins == Cardinality({i \in counted :
                                        rs[i].bidder = p /\ rs[i].scores[p] > 0})
            IN  [BidAttempts |-> attempts,
                 BidWins |-> wins,
                 BidWinRate |-> IF attempts > 0
                                THEN Some(RoundHalfEven(1000 * wins, attempts))
                                ELSE Absent]]

\* the live rating of a core player in hundredths, the base rating before the
\* player is registered
CoreRating(h, pm, p) ==
    IF p \in Keys(pm) THEN h[Get(pm, p)].rating ELSE BASE_RATING * 100

\* variant: rounded to the whole point
Round1_whole(rating, up) == 10 * RoundNearest(rating, 100, up)

\* round(rating, 1), in tenths
Round1(rating, up) == RoundNearest(rating, 10, up)

\* the rounds of the tournament are over: snapshot AFTER, the snapshot map of
\* the tournament, the rating history
EndTournament ==
    /\ pc = "rounds"
    /\ LET as == SnapshotDict(player_map, "after", li + 1)
           h1 == HeapWith(heap, player_map, as, Refs(after_snapshot))
           names == SnapNames(tourney.players, as)
           core == SeqToSet(CORE_PLAYERS)
           ties == {p \in core : IsTie(CoreRating(heap, player_map, p), 10)}
       IN  /\ after_snapshot' = as
           /\ heap' = h1
           /\ tourney_snapshots' =
                [id \in DOMAIN tourney_snapshots \cup {tourney.id} |->
                    IF id = tourney.id
                    THEN [p \in names |->
                            SnapEntry(h1, tourney.players, before_snapshot, as, p)]
                    ELSE tourney_snapshots[id]]
           /\ IF web_error \/ WebRaises(h1, tourney.players, as)
              THEN /\ web_error' = TRUE
                   /\ web_snapshots' = web_snapshots
              ELSE /\ web_error' = FALSE
                   /\ web_snapshots' =
                        [id \in DOMAIN web_snapshots \cup {tourney.id} |->
                            IF id = tourney.id
                            THEN [p \in names |->
                                    WebSnapEntry(h1, tourney.players,
                                                 before_snapshot, as, p)]
                            ELSE web_snapshots[id]]
           /\ bid_stats' =
                IF tourney.hasBidder
                THEN [id \in DOMAIN bid_stats \cup {tourney.id} |->
                        IF id = tourney.id
                        THEN bid_stats_by_player(rows, tourney.players)
                        ELSE bid_stats[id]]
                ELSE bid_stats
           /\ \E up \in [ties -> BOOLEAN] :
                rating_history' =
                    [p \in core |->
                        Append(rating_history[p],
                               Round1(CoreRating(heap, player_map, p),
                                      p \in ties /\ up[p]))]
    /\ li' = li + 1
    /\ pc' = "idle"
    /\ UNCHANGED <<feed, fed, type_counters, tourney, rows, player_map,
                   before_snapshot, rankings>>
    /\ UNCHANGED side_vars

\* the final rankings: core players by descending rating, equal ratings in the
\* order of CORE_PLAYERS
Finish ==
    /\ pc = "idle"
    /\ li = MaxTourneys
    /\ LET r(i) == CoreRating(heap, player_map, CORE_PLAYERS[i])
           ahead(i) == {j \in DOMAIN CORE_PLAYERS :
                           r(j) > r(i) \/ (r(j) = r(i) /\ j < i)}
           at(k) == CHOOSE i \in DOMAIN CORE_PLAYERS : Cardinality(ahead(i)) + 1 = k
           ties == {i \in DOMAIN CORE_PLAYERS : IsTie(r(i), 10)}
       IN  \E up \in [ties -> BOOLEAN] :
             rankings' = [k \in DOMAIN CORE_PLAYERS |->
                            [player |-> CORE_PLAYERS[at(k)],
                             rating |-> Round1(r(at(k)), at(k) \in ties /\ up[at(k)]),
                             rank |-> k]]
    /\ pc' = "done"
    /\ UNCHANGED <<feed, li, fed, type_counters, tourney, rows, heap, player_map,
                   before_snapshot, after_snapshot, tourney_snapshots,
                   web_snapshots, web_error, bid_stats, rating_history>>
    /\ UNCHANGED side_vars

Next ==
    \/ SkipMissing
    \/ \E h \in Headers(feed) : StartTournament(h)
    \/ \E row \in Rows(feed, tourney, rows) : Round(row)
    \/ EndTournament
    \/ Finish

Spec == Init /\ [][Next]_vars

\* ------------------------------------------------------ sheet statistics
\* the longest sheet read
MaxSheetRows == 11

\* min_num_games as process_all_tournaments passes it
PAIR_MIN_GAMES == 10
TRIO_MIN_GAMES == 5

\* the order of Python's < on the player names
Alphabet == <<"A", "B", "C">>
NameIndex(n) == CHOOSE i \in DOMAIN Alphabet : Alphabet[i] = n
NameLess(a, b) == NameIndex(a) < NameIndex(b)

\* the rows a sheet is made of: the scores of A, B and C in one round
RowKinds ==
    << [A |-> 0,   B |-> 0,   C |-> 0],
       [A |-> 80,  B |-> 80,  C |-> 80],
       [A |-> 120, B |-> 120, C |-> 80],
       [A |-> 120, B |-> 80,  C |-> 0],
       [A |-> 0,   B |-> 0,   C |-> 80],
       [A |-> 0,   B |-> 80,  C |-> 120] >>
KindOf(row) == CHOOSE k \in DOMAIN RowKinds : RowKinds[k] = row

RECURSIVE SumField(_, _)
SumField(S, field) ==
    IF S = {} THEN 0
    ELSE LET x == CHOOSE y \in S : TRUE
         IN  x[field] + SumField(S \ {x}, field)

\* variant: a score of 0 counts as a win
Result_nonneg(points) == IF points >= 0 THEN "Win" ELSE "Lose"

\* 'Win' if x > 0 else 'Lose'
Result(points) == IF points > 0 THEN "Win" ELSE "Lose"

\* variant: the frame melted is the cumulative one (the game data as a
\* timeseries), so Points is a player's running total
melt_timeseries(df, players) ==
    {[GameID |-> g, Player |-> players[i],
      Points |-> SumSeq([h \in 1..g |-> df[h][players[i]]]),
      Result |-> Result(SumSeq([h \in 1..g |-> df[h][players[i]]]))] :
         g \in DOMAIN df, i \in DOMAIN players}

\* raw_df.melt(id_vars=["Game ID"], value_vars=players): one row per game and
\* player, with the Result column; Game ID is the 1-based row number
melt(df, players) ==
    {[GameID |-> g, Player |-> players[i], Points |-> df[g][players[i]],
      Result |-> Result(df[g][players[i]])] : g \in DOMAIN df, i \in DOMAIN players}

\* the rows of the melted frame of one game and one result: a join key
Side(melted, g, r) == {x \in melted : x.GameID = g /\ x.Result = r}
JoinKeys(melted) == {<<x.GameID, x.Result>> : x \in melted}

\* variant: the pair filter keeps both orders of a pair
pair_filter_distinct(x, y) == x.Player # y.Player

\* result[Player_x != Player_y], result[Player_x < Player_y]
pair_filter(x, y) == x.Player # y.Player /\ NameLess(x.Player, y.Player)

\* melted.merge(melted, on=[Game ID, Result]), filtered, with the Wins, Losses
\* and Points columns
pair_rows(df, players) ==
    LET melted == melt(df, players)
    IN  UNION {{[GameID |-> k[1], Result |-> k[2],
                 Player_x |-> x.Player, Player_y |-> y.Player,
                 Wins |-> IF k[2] = "Win" THEN 1 ELSE 0,
                 Losses |-> IF k[2] = "Lose" THEN 1 ELSE 0,
                 Points |-> Min(x.Points, y.Points)] :
                     <<x, y>> \in {pr \in Side(melted, k[1], k[2]) \X Side(melted, k[1], k[2]) :
                                     pair_filter(pr[1], pr[2])}} :
               k \in JoinKeys(melted)}

\* groupby([Player_x, Player_y]).agg(...), WinPercentage and the rounding to
\* one decimal (AvgPoints and WinPercentage in tenths); within MaxSheetRows no
\* mean and no percentage lies exactly between two tenths
pair_groups(df, players) ==
    LET result == pair_rows(df, players)
        keys == {<<r.Player_x, r.Player_y>> : r \in result}
        grp(k) == {r \in result : r.Player_x = k[1] /\ r.Player_y = k[2]}
    IN  {[Player_x |-> k[1], Player_y |-> k[2],
          Wins |-> SumField(grp(k), "Wins"),
          Losses |-> SumField(grp(k), "Losses"),
          TotalGames |-> Cardinality(grp(k)),
          AvgPoints |-> RoundHalfEven(10 * SumField(grp(k), "Points"),
                                      Cardinality(grp(k))),
          WinPercentage |->
              RoundHalfEven(1000 * SumField(grp(k), "Wins"),
                            SumField(grp(k), "Wins") + SumField(grp(k), "Losses"))] :
         k \in keys}

\* the order groupby leaves the groups in: by Player_x, then Player_y, then
\* Player_z where the groups are triples
GroupKey(r) ==
    IF "Player_z" \in DOMAIN r
    THEN <<r.Player_x, r.Player_y, r.Player_z>>
    ELSE <<r.Player_x, r.Player_y>>
GroupKeyLess(a, b) ==
    \E i \in DOMAIN GroupKey(a) :
        /\ NameLess(GroupKey(a)[i], GroupKey(b)[i])
        /\ \A j \in 1..(i - 1) : GroupKey(a)[j] = GroupKey(b)[j]

\* sort_values(by="WinPercentage", ascending=False) of the few groups of a
\* sheet: equal percentages stay in group order
sort_values(S) ==
    LET before(r) == {q \in S : \/ q.WinPercentage > r.WinPercentage
                                 \/ (q.WinPercentage = r.WinPercentage
                                       /\ GroupKeyLess(q, r))}
    IN  [i \in 1..Cardinality(S) |-> CHOOSE r \in S : Cardinality(before(r)) = i - 1]

\* the pair records before the threshold filter
pairwise_agg(df, players) == sort_values(pair_groups(df, players))

\* variant: the threshold is exclusive
threshold_filter_strict(agg, min_num_games) ==
    SelectSeq(agg, LAMBDA r : r.TotalGames > min_num_games)

\* agg[agg["TotalGames"] >= min_num_games]
threshold_filter(agg, min_num_games) ==
    SelectSeq(agg, LAMBDA r : r.TotalGames >= min_num_games)

get_pairwise_stats(df, players, min_num_games) ==
    threshold_filter(pairwise_agg(df, players), min_num_games)

\* variant: the triple filter keeps every order of a triple
tri_filter_distinct(x, y, z) ==
    x.Player # y.Player /\ y.Player # z.Player /\ x.Player # z.Player

\* the six filters of get_tri_stats: pairwise distinct, strictly ascending
tri_filter(x, y, z) ==
    /\ x.Player # y.Player /\ y.Player # z.Player /\ x.Player # z.Player
    /\ NameLess(x.Player, y.Player) /\ NameLess(y.Player, z.Player)
    /\ NameLess(x.Player, z.Player)

\* variant: the third player's score is left out of the minimum
tri_points_pair(x, y, z) == Min(x, y)

\* r[["Points_x", "Points_y", "Points_z"]].min(axis=1)
tri_points(x, y, z) == Min(x, Min(y, z))

\* the two merges on [Game ID, Result], filtered, with the Wins, Losses and
\* Points columns
tri_rows(df, players) ==
    LET melted == melt(df, players)
    IN  UNION {{[GameID |-> k[1], Result |-> k[2],
                 Player_x |-> t[1].Player, Player_y |-> t[2].Player,
                 Player_z |-> t[3].Player,
                 Wins |-> IF k[2] = "Win" THEN 1 ELSE 0,
                 Losses |-> IF k[2] = "Lose" THEN 1 ELSE 0,
                 Points |-> tri_points(t[1].Points, t[2].Points, t[3].Points)] :
                     t \in {tr \in Side(melted, k[1], k[2]) \X Side(melted, k[1], k[2])
                                     \X Side(melted, k[1], k[2]) :
                               tri_filter(tr[1], tr[2], tr[3])}} :
               k \in JoinKeys(melted)}

tri_groups(df, players) ==
    LET r == tri_rows(df, players)
        keys == {<<x.Player_x, x.Player_y, x.Player_z>> : x \in r}
        grp(k) == {x \in r : x.Player_x = k[1] /\ x.Player_y = k[2] /\ x.Player_z = k[3]}
    IN  {[Player_x |-> k[1], Player_y |-> k[2], Player_z |-> k[3],
          Wins |-> SumField(grp(k), "Wins"),
          Losses |-> SumField(grp(k), "Losses"),
          TotalGames |-> Cardinality(grp(k)),
          AvgPoints |-> RoundHalfEven(10 * SumField(grp(k), "Points"),
                                      Cardinality(grp(k))),
          WinPercentage |->
              RoundHalfEven(1000 * SumField(grp(k), "Wins"),
                            SumField(grp(k), "Wins") + SumField(grp(k), "Losses"))] :
         k \in keys}

\* the triple records before the threshold filter
tri_agg(df, players) == sort_values(tri_groups(df, players))

get_tri_stats(df, players, min_num_games) ==
    threshold_filter(tri_agg(df, players), min_num_games)

\* scores.sum(), scores.max() and scores.idxmax() (the first column holding
\* the maximum) of a row
RowTotal(row, players) == SumSeq([i \in DOMAIN players |-> row[players[i]]])
RowMax(row, players) == -MinSeq([i \in DOMAIN players |-> -row[players[i]]])
idxmax(row, players) ==
    players[CHOOSE i \in DOMAIN players :
               /\ row[players[i]] = RowMax(row, players)
               /\ \A j \in 1..(i - 1) : row[players[j]] # RowMax(row, players)]

\* get_bid_and_won_stats of process_data.py: player -> BidAndWon
get_bid_and_won_stats(df, players) ==
    [p \in SeqToSet(players) |->
        Cardinality({g \in DOMAIN df :
            /\ RowMax(df[g], players) > 0
            /\ RowTotal(df[g], players) % RowMax(df[g], players) # 0
            /\ idxmax(df[g], players) = p})]

\* get_bid_and_won_stats of utils/data_cruncher.py: x.sum() % x.max() with no
\* test of the maximum, and a credit for every player holding it. On a row
\* whose maximum is 0 the remainder raises ZeroDivisionError when the row
\* holds Python integers (object_rows: the sheet has a text column) and is 0
\* when it holds numpy integers
cruncher_get_bid_and_won_stats(df, players, object_rows) ==
    IF object_rows /\ \E g \in DOMAIN df : RowMax(df[g], players) = 0
    THEN [raised |-> TRUE, counts |-> [p \in SeqToSet(players) |-> 0]]
    ELSE [raised |-> FALSE,
          counts |-> [p \in SeqToSet(players) |->
              Cardinality({g \in DOMAIN df :
                  /\ RowMax(df[g], players) # 0
                  /\ RowTotal(df[g], players) % RowMax(df[g], players) # 0
                  /\ df[g][p] = RowMax(df[g], players)})]]

\* load_tournament_raw: one more row of the sheet; the rows of a sheet come
\* grouped by kind
ReadRow(k) ==
    /\ stats_pc = "read"
    /\ Len(raw_df) < MaxSheetRows
    /\ raw_df # <<>> => KindOf(raw_df[Len(raw_df)]) <= k
    /\ raw_df' = Append(raw_df, RowKinds[k])
    /\ UNCHANGED <<stats_pc, stats, urs>>
    /\ UNCHANGED main_vars

\* process_all_tournaments: the statistics of the sheet
Crunch ==
    /\ stats_pc = "read"
    /\ \E object_rows \in BOOLEAN :
         stats' = [pw_agg |-> pairwise_agg(raw_df, StatsPlayers),
                   pairwise |-> get_pairwise_stats(raw_df, StatsPlayers, PAIR_MIN_GAMES),
                   trio_agg |-> tri_agg(raw_df, StatsPlayers),
                   trio |-> get_tri_stats(raw_df, StatsPlayers, TRIO_MIN_GAMES),
                   bid_and_won |-> get_bid_and_won_stats(raw_df, StatsPlayers),
                   cruncher_bid_and_won |->
                       cruncher_get_bid_and_won_stats(raw_df, StatsPlayers, object_rows)]
    /\ stats_pc' = "done"
    /\ UNCHANGED <<raw_df, urs>>
    /\ UNCHANGED main_vars

StatsInit == Init /\ feed = "wide"

StatsNext ==
    \/ \E k \in DOMAIN RowKinds : ReadRow(k)
    \/ Crunch

StatsSpec == StatsInit /\ [][StatsNext]_vars

\* ------------------------------------------------- the rounds reordered
\* a sheet of n rounds: everybody scores 80, but for one round of each kind
\* of `singles`, which come last
Sheet(n, singles) ==
    LET last == SelectSeq(<<3, 4, 5>>, LAMBDA k : k \in singles)
        m == n - Len(last)
    IN  [i \in 1..n |-> IF i <= m THEN RowKinds[2] ELSE RowKinds[last[i - m]]]

\* the sheets long enough for a pair to be listed
Sheets ==
    {Sheet(n, singles) : n \in PAIR_MIN_GAMES..MaxSheetRows, singles \in SUBSET {3, 4, 5}}

ReorderInit ==
    /\ feed = "wide"
    /\ li = 0
    /\ fed = 0
    /\ type_counters = [t \in TourneyTypes |-> 0]
    /\ pc = "idle"
    /\ tourney = [id |-> NoTournament, key |-> NoTournament, type |-> None,
                  players |-> <<>>, hasBidder |-> FALSE, scores |-> EmptyMap]
    /\ rows = <<>>
    /\ heap = EmptyMap
    /\ player_map = <<>>
    /\ before_snapshot = <<>>
    /\ after_snapshot = <<>>
    /\ tourney_snapshots = EmptyMap
    /\ web_snapshots = EmptyMap
    /\ web_error = FALSE
    /\ bid_stats = EmptyMap
    /\ rating_history = [p \in SeqToSet(CORE_PLAYERS) |-> <<BASE_RATING * 10>>]
    /\ rankings = <<>>
    /\ raw_df \in Sheets
    /\ stats_pc = "read"
    /\ stats = NoStats
    /\ urs = NoUrs

\* the file is rewritten with rounds i and i + 1 exchanged and loaded again:
\* Game ID is the row number, so the two rounds exchange their Game IDs
ExchangeRounds(i) ==
    /\ stats_pc = "done"
    /\ i \in 1..(Len(raw_df) - 1)
    /\ raw_df[i] # raw_df[i + 1]
    /\ raw_df' = [raw_df EXCEPT ![i] = raw_df[i + 1], ![i + 1] = raw_df[i]]
    /\ stats_pc' = "read"
    /\ stats' = NoStats
    /\ UNCHANGED urs
    /\ UNCHANGED main_vars

ReorderNext ==
    \/ Crunch
    \/ \E i \in 1..MaxSheetRows : ExchangeRounds(i)

ReorderSpec == ReorderInit /\ [][ReorderNext]_vars

\* ------------------------------------------------ UniversalRatingSystem
\* the rounds handed to the rating system in one run
MaxUrsGames == 4

\* the tournaments it is fed: their players and the scores a row may hold
UrsHeaders ==
    { [players |-> <<"A", "B", "C">>,
       rows |-> { [A |-> 120, B |-> 80, C |-> 0],
                  [A |-> 0,   B |-> 0,  C |-> 80],
                  [A |-> 0,   B |-> 0,  C |-> 0],
                  [A |-> 80,  B |-> 80, C |-> 80] }],
      [players |-> <<"B", "A">>,
       rows |-> { [A |-> 80,  B |-> 0],
                  [A |-> 0,   B |-> 0] }] }

\* PlayerProfile of ranking_system.py, the rating in hundredths
UrsPlayerProfile(name, rating) ==
    [name |-> name, rating |-> rating * 100, bidAndWon |-> 0,
     careerGames |-> 0, careerWins |-> 0]

register_win(self, adj_points, bid_and_won, up) ==
    [self EXCEPT !.careerGames = @ + 1,
                 !.careerWins = @ + 1,
                 !.rating = @ + RoundNearest(adj_points.num,
                                             adj_points.den, up),
                 !.bidAndWon = IF bid_and_won THEN @ + 1 ELSE @]

register_loss(self, adj_points, up) ==
    [self EXCEPT !.careerGames = @ + 1,
                 !.rating = @ - RoundNearest(adj_points.num,
                                             adj_points.den, up)]

\* record_game: the teams of a row
urs_winning_team(row, players) == SelectSeq(players, LAMBDA p : row[p] > 0)
urs_losing_team(row, players) == SelectSeq(players, LAMBDA p : ~(row[p] > 0))

\* calculate_rating_change raises before it changes anything: min() of no
\* winning points (ValueError), or the average rating of no losers
\* (ZeroDivisionError)
calculate_rating_change_raises(row, players) ==
    urs_winning_team(row, players) = <<>> \/ urs_losing_team(row, players) = <<>>

\* (1 - adjustment_factor) / DENOMINATOR, in hundredths per point, with
\* adjustment_factor = max(-0.5, min(0.5, rating_difference / BASE_RATING))
urs_multiplier(pm, row, players) ==
    LET w  == urs_winning_team(row, players)
        l  == urs_losing_team(row, players)
        sw == SumSeq([i \in DOMAIN w |-> pm[w[i]].rating])
        sl == SumSeq([i \in DOMAIN l |-> pm[l[i]].rating])
        num == sw * Len(l) - sl * Len(w)
        D  == Len(w) * Len(l) * 100 * BASE_RATING
        f2 == Max(-D, Min(D, 2 * num))
    IN  [num |-> 2 * D - f2, den |-> (DENOMINATOR * 2 * D) \div 100]

\* the points a player's rating moves by: player_points for a winner, bid for
\* a loser, times the multiplier
urs_adjusted_points(pm, row, players, p) ==
    LET w == urs_winning_team(row, players)
        bid == MinSeq([i \in DOMAIN w |-> row[w[i]]])
    IN  Times(IF row[p] > 0 THEN row[p] ELSE bid, urs_multiplier(pm, row, players))

\* calculate_rating_change on a row with winners and losers: the profile of p
calculate_rating_change(pm, row, players, p, up) ==
    LET w == urs_winning_team(row, players)
        bid == MinSeq([i \in DOMAIN w |-> row[w[i]]])
    IN  IF row[p] > 0
        THEN register_win(pm[p], urs_adjusted_points(pm, row, players, p),
                          row[p] > bid, up)
        ELSE register_loss(pm[p], urs_adjusted_points(pm, row, players, p), up)

\* addTournamentData up to the loop: the key is recorded, new players are
\* registered, the ratings before are copied
UrsAddTournamentData(h) ==
    /\ urs.pc = "idle"
    /\ Len(urs.tournaments) < MaxTourneys
    /\ LET key == Len(urs.tournaments) + 1
           pm == [p \in DOMAIN urs.player_map \cup SeqToSet(h.players) |->
                    IF p \in DOMAIN urs.player_map
                    THEN urs.player_map[p]
                    ELSE UrsPlayerProfile(p, BASE_RATING)]
       IN  urs' = [urs EXCEPT
                     !.pc = "rounds",
                     !.tournaments = Append(@, key),
                     !.players = h.players,
                     !.player_map = pm,
                     !.preTournamentRatings =
                         [k \in DOMAIN @ \cup {key} |-> IF k = key THEN pm ELSE @[k]]]
    /\ UNCHANGED <<main_vars, stats_vars>>

\* one iteration of "for _, row in game_records.iterrows()": record_game
UrsRecordGame(h, row) ==
    /\ urs.pc = "rounds"
    /\ h.players = urs.players
    /\ urs.fed < MaxUrsGames
    /\ IF calculate_rating_change_raises(row, urs.players)
       THEN urs' = [urs EXCEPT !.pc = "raised",
                               !.fed = @ + 1,
                               !.history = Append(@, row)]
       ELSE LET P == SeqToSet(urs.players)
                ties == {p \in P :
                           LET a == urs_adjusted_points(urs.player_map, row,
                                                        urs.players, p)
                           IN  IsTie(a.num, a.den)}
            IN  \E up \in [ties -> BOOLEAN] :
                  urs' = [urs EXCEPT
                            !.fed = @ + 1,
                            !.history = Append(@, row),
                            !.player_map =
                                [p \in DOMAIN @ |->
                                    IF p \in P
                                    THEN calculate_rating_change(
                                             urs.player_map, row, urs.players, p,
                                             p \in ties /\ up[p])
                                    ELSE @[p]]]
    /\ UNCHANGED <<main_vars, stats_vars>>

\* addTournamentData after the loop: the ratings after are copied
UrsTournamentAdded ==
    /\ urs.pc = "rounds"
    /\ urs' = [urs EXCEPT
                 !.pc = "idle",
                 !.postTournamentRatings =
                     LET key == Len(urs.tournaments)
                     IN  [k \in DOMAIN @ \cup {key} |->
                            IF k = key THEN urs.player_map ELSE @[k]]]
    /\ UNCHANGED <<main_vars, stats_vars>>

UrsInit == Init /\ feed = "wide"

UrsNext ==
    \/ \E h \in UrsHeaders : UrsAddTournamentData(h)
    \/ \E h \in UrsHeaders : \E row \in h.rows : UrsRecordGame(h, row)
    \/ UrsTournamentAdded

UrsSpec == UrsInit /\ [][UrsNext]_vars


\* ---------------------------------------------------- a late tournament
\* compute_overall_rankings picked up at a tournament late in the list: A, B
\* and C are registered and carry the ratings (in hundredths) that earlier
\* tournaments, not enumerated here, left them with: level, the winners-to-be
\* 12.40 ahead, 500 apart either way (where the winsorizing sets in), and
\* 1200 apart (beyond BASE_RATING)
CarriedRatings ==
    { [A |-> 100000, B |-> 100000, C |-> 100000],
      [A |-> 100620, B |-> 100620, C |-> 99380],
      [A |-> 125000, B |-> 125000, C |-> 75000],
      [A |-> 75000,  B |-> 75000,  C |-> 125000],
      [A |-> 160000, B |-> 160000, C |-> 40000] }

\* a profile with a past: 40 rounds in an earlier tournament
Carried(name, rating) ==
    [PlayerProfile(name) EXCEPT !.rating = rating,
                                !.careerGames = 40,
                                !.careerWins = 20,
                                !.bidAndWon = 10,
                                !.bestWinStreak = 4,
                                !.worstLossStreak = 4,
                                !.currentTournament = <<"international_friendly", 1>>]

LateInit ==
    /\ feed = "wide"
    /\ li = 0
    /\ fed = 0
    /\ type_counters = [t \in TourneyTypes |-> 0]
    /\ pc = "idle"
    /\ tourney = [id |-> NoTournament, key |-> NoTournament, type |-> None,
                  players |-> <<>>, hasBidder |-> FALSE, scores |-> EmptyMap]
    /\ rows = <<>>
    /\ player_map = <<<<"A", Live("A")>>, <<"B", Live("B")>>, <<"C", Live("C")>>>>
    /\ \E rt \in CarriedRatings :
          heap = [r \in {Live("A"), Live("B"), Live("C")} |-> Carried(r[3], rt[r[3]])]
    /\ before_snapshot = <<>>
    /\ after_snapshot = <<>>
    /\ tourney_snapshots = EmptyMap
    /\ web_snapshots = EmptyMap
    /\ web_error = FALSE
    /\ bid_stats = EmptyMap
    /\ rating_history = [p \in SeqToSet(CORE_PLAYERS) |-> <<BASE_RATING * 10>>]
    /\ rankings = <<>>
    /\ raw_df = <<>>
    /\ stats_pc = "read"
    /\ stats = NoStats
    /\ urs = NoUrs

\* that one tournament: loaded, its rounds, its end
LateNext ==
    \/ li = 0 /\ \E h \in Headers(feed) : StartTournament(h)
    \/ \E row \in Rows(feed, tourney, rows) : Round(row)
    \/ EndTournament

LateSpec == LateInit /\ [][LateNext]_vars


\* ------------------------------------------------- what the feed has held
\* the rounds of the current tournament that were not skipped
ProcessedRows == SelectSeq(rows, LAMBDA r : ~Skipped(r, tourney.players))

\* TRUE for a win, FALSE for a loss: player p in those rounds, in order
Outcomes(p) == [i \in DOMAIN ProcessedRows |-> ProcessedRows[i].scores[p] > 0]

\* how often the running streak of outcome w reaches exactly k in o
TimesReached(o, w, k) ==
    Cardinality({i \in DOMAIN o :
                    /\ i >= k
                    /\ \A j \in (i - k + 1)..i : o[j] = w
                    /\ (i = k \/ o[i - k] # w)})

\* the profile of p as it was when the current tournament started
AtStart(p) ==
    IF p \in Keys(before_snapshot) THEN heap[Get(before_snapshot, p)]
    ELSE PlayerProfile(p)

InTournament == tourney.id # NoTournament
Players == SeqToSet(tourney.players)
\* this step is an iteration of the round loop, over the row LastRow'
RoundStep == pc = "rounds" /\ rows' # rows
LastRow == rows[Len(rows)]

Abs(x) == IF x < 0 THEN -x ELSE x

\* ------------------------------------------------------------------- C1
\* C1: every round is either skipped (no winner or no loser) and then changes
\* nobody's careerGames, or processed and then raises the careerGames of every
\* player of the tournament by exactly 1; never both, never neither.
C1_NobodyCounted ==
    \A n \in Keys(player_map) : Prof(n)'.careerGames = Prof(n).careerGames
C1_EverybodyCounted ==
    /\ \A p \in Players : Prof(p)'.careerGames = Prof(p).careerGames + 1
    /\ \A n \in Keys(player_map) \ Players :
          Prof(n)'.careerGames = Prof(n).careerGames
C1_SkippedOrFullyProcessed ==
    [][RoundStep =>
         LET empty_side == \/ \A p \in Players : LastRow'.scores[p] <= 0
                           \/ \A p \in Players : LastRow'.scores[p] > 0
         IN  \/ empty_side /\ C1_NobodyCounted /\ ~C1_EverybodyCounted
             \/ ~empty_side /\ C1_EverybodyCounted /\ ~C1_NobodyCounted]_vars

\* a skipped round followed by a processed one: every player counts one game
C1_Witness ==
    /\ pc = "rounds" /\ li = 0 /\ Len(rows) = 2
    /\ Players = {"A", "B", "C"}
    /\ \A p \in Players : rows[1].scores[p] <= 0
    /\ rows[2].scores["A"] > 0 /\ rows[2].scores["C"] <= 0
    /\ \A p \in Players : Prof(p).careerGames = 1


\* ------------------------------------------------------------------- C2
\* C2: milestone counters are edge-triggered.  Over the rounds of a tournament
\* numFivles grows by the number of times the player's run of wins reaches
\* exactly 5, numTenples by the number of times it reaches exactly 10 and
\* fiveMottes by the number of times the run of losses reaches exactly 5: a
\* player who has won all n processed rounds of the tournament has gained one
\* numFivles iff n >= 5 and one numTenples iff n >= 10, whatever n is beyond.
C2_EdgeTriggered ==
    InTournament =>
      \A p \in Players :
        LET o == Outcomes(p)
            n == Len(o)
            s == AtStart(p)
        IN  /\ Prof(p).numFivles = s.numFivles + TimesReached(o, TRUE, 5)
            /\ Prof(p).numTenples = s.numTenples + TimesReached(o, TRUE, 10)
            /\ Prof(p).fiveMottes = s.fiveMottes + TimesReached(o, FALSE, 5)
            /\ (\A i \in DOMAIN o : o[i]) =>
                  /\ Prof(p).numFivles - s.numFivles = IF n >= 5 THEN 1 ELSE 0
                  /\ Prof(p).numTenples - s.numTenples = IF n >= 10 THEN 1 ELSE 0
                  /\ Prof(p).fiveMottes = s.fiveMottes
            /\ (\A i \in DOMAIN o : ~o[i]) =>
                  /\ Prof(p).fiveMottes - s.fiveMottes = IF n >= 5 THEN 1 ELSE 0
                  /\ Prof(p).numFivles = s.numFivles
                  /\ Prof(p).numTenples = s.numTenples

\* twelve wins in a row in one tournament: one Fivple, one Tenple; the loser
\* of the twelve rounds has one FiveMotte
C2_Witness ==
    /\ pc = "rounds"
    /\ Len(Outcomes("A")) = 12
    /\ \A i \in DOMAIN Outcomes("A") : Outcomes("A")[i]
    /\ Prof("A").winStreak = 12
    /\ Prof("A").numFivles = 1 /\ Prof("A").numTenples = 1
    /\ Prof("B").lossStreak = 12 /\ Prof("B").fiveMottes = 1

\* ------------------------------------------------------------------- C3
\* C3: in a processed round a player whose profile is on another tournament
\* key starts from streaks 0, so the round leaves a streak of exactly 1; that
\* happens at the player's first processed round of the tournament and at no
\* later one, where the streak of the round's outcome grows by 1.
C3_ResetAtBoundary ==
    [][(RoundStep /\ ~Skipped(LastRow', tourney.players)) =>
         \A p \in Players :
           LET won == LastRow'.scores[p] > 0
               first == Outcomes(p) = <<>>
           IN  /\ first <=> (Prof(p).currentTournament # tourney.key)
               /\ Prof(p)'.currentTournament = tourney.key
               /\ first =>
                    /\ Prof(p)'.winStreak = IF won THEN 1 ELSE 0
                    /\ Prof(p)'.lossStreak = IF won THEN 0 ELSE 1
               /\ ~first =>
                    /\ Prof(p)'.winStreak = IF won THEN Prof(p).winStreak + 1 ELSE 0
                    /\ Prof(p)'.lossStreak = IF won THEN 0 ELSE Prof(p).lossStreak + 1]_vars

\* a player who ended the previous tournament on a streak of 3 or more wins
\* has a streak of 1 after the first round of the next
C3_Witness ==
    /\ pc = "rounds"
    /\ "A" \in Keys(after_snapshot)
    /\ heap[Get(after_snapshot, "A")].winStreak >= 3
    /\ heap[Get(after_snapshot, "A")].currentTournament # tourney.key
    /\ Outcomes("A") = <<TRUE>>
    /\ Prof("A").winStreak = 1 /\ Prof("A").lossStreak = 0
    /\ Prof("A").bestWinStreak >= 3


\* ------------------------------------------------------------------- C4
\* C4: A, B and C at rating 1000.00, weight 1.0, a round with A = 120, B = 80
\* and C <= 0: the round leaves A at 1000.60, B at 1000.40 and C at 999.60,
\* counts one bidAndWon for A and none for B or C.
C4_Scenario ==
    /\ Players = {"A", "B", "C"}
    /\ TOURNAMENT_WEIGHTS(tourney.type).num = TOURNAMENT_WEIGHTS(tourney.type).den
    /\ \A p \in Players : Prof(p).rating = 100000
    /\ LastRow'.scores["A"] = 120
    /\ LastRow'.scores["B"] = 80
    /\ LastRow'.scores["C"] <= 0
C4_ConcreteRatings ==
    [][(RoundStep /\ C4_Scenario) =>
         /\ Prof("A")'.rating = 100060
         /\ Prof("B")'.rating = 100040
         /\ Prof("C")'.rating = 99960
         /\ Prof("A")'.bidAndWon = Prof("A").bidAndWon + 1
         /\ Prof("B")'.bidAndWon = Prof("B").bidAndWon
         /\ Prof("C")'.bidAndWon = Prof("C").bidAndWon]_vars

\* the scenario as the first round of the first tournament
C4_Witness ==
    /\ pc = "rounds" /\ tourney.type = "championship"
    /\ Players = {"A", "B", "C"}
    /\ Len(rows) = 1
    /\ rows[1].scores["A"] = 120 /\ rows[1].scores["B"] = 80
    /\ rows[1].scores["C"] = 0
    /\ AtStart("A").rating = 100000 /\ AtStart("B").rating = 100000
    /\ AtStart("C").rating = 100000
    /\ Prof("A").rating = 100060 /\ Prof("B").rating = 100040
    /\ Prof("C").rating = 99960
    /\ Prof("A").bidAndWon = 1 /\ Prof("B").bidAndWon = 0 /\ Prof("C").bidAndWon = 0

\* ------------------------------------------------------------------- C5
\* C5: in a processed round the winners' total gain is the sum of s_i x
\* multiplier over the winners, the losers' total loss is the number of losers
\* x bid x multiplier, each player's share rounded to the hundredth; the two
\* totals are not tied to each other.
TotalGain == SumSeq([i \in DOMAIN tourney.players |->
                       IF LastRow'.scores[tourney.players[i]] > 0
                       THEN Prof(tourney.players[i])'.rating
                            - Prof(tourney.players[i]).rating
                       ELSE 0])
TotalLoss == SumSeq([i \in DOMAIN tourney.players |->
                       IF LastRow'.scores[tourney.players[i]] > 0
                       THEN 0
                       ELSE Prof(tourney.players[i]).rating
                            - Prof(tourney.players[i])'.rating])
C5_GainAndLossIndependent ==
    [][(RoundStep /\ ~Skipped(LastRow', tourney.players)) =>
         LET row == LastRow'
             wp  == winning_points(row, tourney.players)
             nw  == Len(wp)
             nl  == Len(losing_team(row, tourney.players))
             bid == MinSeq(wp)
             m   == adj_mult(heap, player_map, row, tourney)
         IN  \* each total is within half a hundredth per player of its exact value
             /\ 2 * Abs(TotalGain * m.den - SumSeq(wp) * m.num) <= nw * m.den
             /\ 2 * Abs(TotalLoss * m.den - nl * bid * m.num) <= nl * m.den]_vars

\* winners 120 and 80, one loser, everybody at 1000: gain 1.00, loss 0.40
C5_Witness ==
    /\ pc = "rounds" /\ tourney.type = "championship"
    /\ Players = {"A", "B", "C"}
    /\ Len(rows) = 1
    /\ rows[1].scores["A"] = 120 /\ rows[1].scores["B"] = 80
    /\ AtStart("A").rating = 100000 /\ AtStart("B").rating = 100000
    /\ AtStart("C").rating = 100000
    /\ (Prof("A").rating - 100000) + (Prof("B").rating - 100000) = 100
    /\ 100000 - Prof("C").rating = 40


\* ------------------------------------------------------------------- C6
\* C6: winPercentage and bidAndWonPercentage return 0 and never raise for a
\* profile with careerGames = 0, in the PlayerProfile of process_data.py and
\* in the one of utils/Player.py that website/process_data.py calls for every
\* snapshot entry.
C6_PercentagesNeverRaise ==
    /\ ~web_error
    /\ \A id \in DOMAIN tourney_snapshots :
         \A p \in DOMAIN tourney_snapshots[id] :
           tourney_snapshots[id][p].careerGames = 0 =>
             /\ tourney_snapshots[id][p].winPct = 0
             /\ tourney_snapshots[id][p].bidAndWonPct = 0
    /\ \A id \in DOMAIN web_snapshots :
         \A p \in DOMAIN web_snapshots[id] :
           tourney_snapshots[id][p].careerGames = 0 =>
             /\ web_snapshots[id][p].winPct = 0
             /\ web_snapshots[id][p].bidAndWonPct = 0

\* ------------------------------------------------------------------- C7
\* C7: the bid win rate is None exactly when bidAttempts is 0 and otherwise
\* the percentage bidWins / bidAttempts to one decimal, in the snapshot
\* entries (bid_win_rate of the profile) and in the per-tournament statistics
\* of the named bidder (process_all_tournaments and get_named_bid_stats).
IsRate(rate, wins, attempts) ==
    IF attempts = 0
    THEN rate = Absent
    ELSE /\ rate # Absent
         /\ ValueOf(rate) \in 0..1000
         /\ 2 * Abs(ValueOf(rate) * attempts - 1000 * wins) <= attempts
C7_BidWinRate ==
    /\ \A id \in DOMAIN tourney_snapshots :
         \A p \in DOMAIN tourney_snapshots[id] :
           LET e == tourney_snapshots[id][p]
           IN  IsRate(e.bidWinRate, e.bidWins, e.bidAttempts)
    /\ \A id \in DOMAIN bid_stats :
         \A p \in DOMAIN bid_stats[id] :
           LET e == bid_stats[id][p]
           IN  IsRate(e.bidWinRate, e.bidWins, e.bidAttempts)
    /\ (InTournament /\ tourney.hasBidder) =>
         \A p \in Players :
           LET e == get_named_bid_stats(rows, tourney.players)[p]
           IN  /\ IsRate(e.BidWinRate, e.BidWins, e.BidAttempts)
               /\ e.BidAttempts = Cardinality({i \in DOMAIN rows : rows[i].bidder = p})

\* a named bidder with one bid won out of two (50.0) next to a player who
\* never bid (None), in the snapshot and in the tournament's statistics
C7_Witness ==
    /\ pc = "idle"
    /\ tourney.id \in DOMAIN tourney_snapshots
    /\ tourney.id \in DOMAIN bid_stats
    /\ tourney_snapshots[tourney.id]["A"].bidWinRate = Some(500)
    /\ tourney_snapshots[tourney.id]["B"].bidWinRate = Absent
    /\ tourney_snapshots[tourney.id]["B"].careerGames = 2
    /\ bid_stats[tourney.id]["A"].bidWinRate = Some(500)
    /\ bid_stats[tourney.id]["B"].bidWinRate = Absent

\* ------------------------------------------------------------------- C8
\* C8: a snapshot is a value copy: as long as a before or after snapshot is
\* held, no round and no tournament processed on the live profiles changes a
\* field of it.
C8_SnapshotsFrozen ==
    [][/\ before_snapshot' = before_snapshot =>
            \A i \in DOMAIN before_snapshot :
               heap'[before_snapshot[i][2]] = heap[before_snapshot[i][2]]
       /\ after_snapshot' = after_snapshot =>
            \A i \in DOMAIN after_snapshot :
               heap'[after_snapshot[i][2]] = heap[after_snapshot[i][2]]]_vars

\* the live profile of A has moved on from both snapshots held of it
C8_Witness ==
    /\ pc = "rounds"
    /\ "A" \in Keys(before_snapshot) /\ "A" \in Keys(after_snapshot)
    /\ heap[Get(before_snapshot, "A")] = heap[Get(after_snapshot, "A")]
    /\ Prof("A").careerGames > heap[Get(before_snapshot, "A")].careerGames
    /\ Prof("A").rating # heap[Get(after_snapshot, "A")].rating
    /\ Prof("A").winStreak # heap[Get(after_snapshot, "A")].winStreak


\* ------------------------------------------------------------------- C9
\* the before value of a field: the one of the before snapshot, or the default
\* for a player the before snapshot does not hold
BeforeValue(p, field, default) ==
    IF p \in Keys(before_snapshot)
    THEN heap[Get(before_snapshot, p)][field] ELSE default

\* the snapshot map of the tournament just ended is held next to its before
\* and after snapshots
JustEnded == pc # "rounds" /\ tourney.id \in DOMAIN tourney_snapshots

\* C9: every per-tournament delta of a snapshot entry is after minus before:
\* ratingChange = ratingAfter - ratingBefore, and the three milestone deltas
\* are the after counter minus the before counter and never negative; a player
\* the before snapshot does not hold starts from the base rating 1000 and from
\* 0 for each milestone counter.
C9_DeltasAfterMinusBefore ==
    /\ \A id \in DOMAIN tourney_snapshots :
         \A p \in DOMAIN tourney_snapshots[id] :
           LET e == tourney_snapshots[id][p]
           IN  e.ratingChange = e.ratingAfter - e.ratingBefore
    /\ \A id \in DOMAIN web_snapshots :
         \A p \in DOMAIN web_snapshots[id] :
           LET e == web_snapshots[id][p]
           IN  /\ e.ratingChange = e.ratingAfter - e.ratingBefore
               /\ e.fivplesThisTourney \in 0..e.numFivles
               /\ e.tenplesThisTourney \in 0..e.numTenples
               /\ e.fiveMottesThisTourney \in 0..e.fiveMottes
    /\ JustEnded =>
         \A p \in DOMAIN tourney_snapshots[tourney.id] :
           LET e == tourney_snapshots[tourney.id][p]
               a == heap[Get(after_snapshot, p)]
           IN  /\ e.ratingAfter = IntRating(a.rating)
               /\ e.ratingBefore =
                    IF p \in Keys(before_snapshot)
                    THEN IntRating(heap[Get(before_snapshot, p)].rating)
                    ELSE 1000
    /\ (JustEnded /\ tourney.id \in DOMAIN web_snapshots) =>
         \A p \in DOMAIN web_snapshots[tourney.id] :
           LET e == web_snapshots[tourney.id][p]
               a == heap[Get(after_snapshot, p)]
           IN  /\ e.ratingAfter = IntRating(a.rating)
               /\ e.ratingBefore =
                    IF p \in Keys(before_snapshot)
                    THEN IntRating(heap[Get(before_snapshot, p)].rating)
                    ELSE 1000
               /\ e.fivplesThisTourney = a.numFivles - BeforeValue(p, "numFivles", 0)
               /\ e.tenplesThisTourney = a.numTenples - BeforeValue(p, "numTenples", 0)
               /\ e.fiveMottesThisTourney = a.fiveMottes - BeforeValue(p, "fiveMottes", 0)

\* a second tournament in which A reaches a fivple again and B a five-motte
\* again: the deltas are 1 where the career totals are 2, and the rating
\* change is measured from the rating the tournament started with
C9_Witness ==
    /\ JustEnded
    /\ tourney.id \in DOMAIN web_snapshots
    /\ \E p \in DOMAIN web_snapshots[tourney.id], q \in DOMAIN web_snapshots[tourney.id] :
         /\ p \in Keys(before_snapshot)
         /\ web_snapshots[tourney.id][p].numFivles = 2
         /\ web_snapshots[tourney.id][p].fivplesThisTourney = 1
         /\ web_snapshots[tourney.id][q].fiveMottes = 2
         /\ web_snapshots[tourney.id][q].fiveMottesThisTourney = 1
         /\ web_snapshots[tourney.id][p].ratingBefore # 1000
         /\ web_snapshots[tourney.id][p].ratingChange # 0

\* a first tournament: nobody is in the before snapshot, and the entries
\* start from 1000 and 0
C9_FirstAppearance ==
    /\ JustEnded
    /\ tourney.id \in DOMAIN web_snapshots
    /\ before_snapshot = EmptyMap
    /\ \E p \in DOMAIN web_snapshots[tourney.id] :
         /\ web_snapshots[tourney.id][p].ratingBefore = 1000
         /\ web_snapshots[tourney.id][p].ratingChange > 0
         /\ web_snapshots[tourney.id][p].fivplesThisTourney = 1

\* ------------------------------------------------------------------ C10
\* C10 as stated: the snapshot map of a tournament has an entry for every
\* player of its before snapshot or its after snapshot, guests registered in
\* an earlier tournament who do not play in this one included.
C10_EveryPlayerOfEitherSnapshot ==
    JustEnded =>
        (Keys(before_snapshot) \cup Keys(after_snapshot))
            \subseteq DOMAIN tourney_snapshots[tourney.id]

\* C10 amended: the snapshot map of a tournament has an entry exactly for
\* every core player the after snapshot holds and for every player of this
\* tournament's player list; a guest registered in an earlier tournament who
\* does not play in this one has none.
C10_CoreAndThisTournamentsGuests ==
    JustEnded =>
        /\ DOMAIN tourney_snapshots[tourney.id] =
              (SeqToSet(CORE_PLAYERS) \cap Keys(after_snapshot))
                  \cup SeqToSet(tourney.players)
        /\ tourney.id \in DOMAIN web_snapshots =>
              DOMAIN web_snapshots[tourney.id] = DOMAIN tourney_snapshots[tourney.id]

\* guest C was registered by an earlier tournament, is in both snapshots of
\* this one, does not play in it and has no entry
C10_Witness ==
    /\ JustEnded
    /\ "C" \in Keys(before_snapshot) /\ "C" \in Keys(after_snapshot)
    /\ "C" \notin SeqToSet(tourney.players)
    /\ "C" \notin DOMAIN tourney_snapshots[tourney.id]
    /\ "A" \in DOMAIN tourney_snapshots[tourney.id]


\* ------------------------------------------------------------------ C11
\* the core players a snapshot dict holds, and the bounds of a core player's
\* rank among them: one more than the number of core players rated strictly
\* higher, at most the number of core players rated at least as high
CoreIn(d) == SeqToSet(CORE_PLAYERS) \cap Keys(d)
RankAmongCore(d, p, rank) ==
    LET r(q) == heap[Get(d, q)].rating
    IN  /\ p \in CoreIn(d)
        /\ rank # Absent
        /\ ValueOf(rank) > Cardinality({q \in CoreIn(d) : r(q) > r(p)})
        /\ ValueOf(rank) <= Cardinality({q \in CoreIn(d) : r(q) >= r(p)})

\* C11: ranks are computed among the core players only, by descending rating:
\* a guest's entry reports no rank before, no rank after and rank change 0,
\* and a core player's rank counts core players only, whatever the guests'
\* ratings are.
C11_RanksAmongCoreOnly ==
    /\ \A id \in DOMAIN tourney_snapshots :
         \A p \in DOMAIN tourney_snapshots[id] :
           LET e == tourney_snapshots[id][p]
           IN  /\ e.isGuest <=> p \notin SeqToSet(CORE_PLAYERS)
               /\ e.isGuest =>
                    e.rankBefore = Absent /\ e.rankAfter = Absent /\ e.rankChange = 0
               /\ (e.rankBefore # Absent /\ e.rankAfter # Absent) =>
                    e.rankChange = ValueOf(e.rankBefore) - ValueOf(e.rankAfter)
    /\ JustEnded =>
         \A p \in DOMAIN tourney_snapshots[tourney.id] :
           LET e == tourney_snapshots[tourney.id][p]
           IN  p \in SeqToSet(CORE_PLAYERS) =>
                 /\ RankAmongCore(after_snapshot, p, e.rankAfter)
                 /\ IF p \in Keys(before_snapshot)
                    THEN RankAmongCore(before_snapshot, p, e.rankBefore)
                    ELSE e.rankBefore = Absent /\ e.rankChange = 0

\* guest C ends the tournament rated above both core players: C has no rank,
\* and the better core player is still first
C11_Witness ==
    /\ JustEnded
    /\ {"A", "B", "C"} \subseteq Keys(after_snapshot)
    /\ "C" \in DOMAIN tourney_snapshots[tourney.id]
    /\ tourney_snapshots[tourney.id]["C"].rankAfter = Absent
    /\ heap[Get(after_snapshot, "C")].rating > heap[Get(after_snapshot, "A")].rating
    /\ heap[Get(after_snapshot, "A")].rating > heap[Get(after_snapshot, "B")].rating
    /\ tourney_snapshots[tourney.id]["A"].rankAfter = Some(1)
    /\ tourney_snapshots[tourney.id]["B"].rankAfter = Some(2)
    /\ tourney_snapshots[tourney.id]["A"].rankBefore # Absent


\* ------------------------------------------------------------------ C12
\* the rounds of the sheet in which all players of the group G are on the
\* same side: all scores > 0, or all scores <= 0
WonTogether(G) == {g \in DOMAIN raw_df : \A p \in G : raw_df[g][p] > 0}
LostTogether(G) == {g \in DOMAIN raw_df : \A p \in G : ~(raw_df[g][p] > 0)}
GroupMin(G, g) == CHOOSE m \in {raw_df[g][p] : p \in G} : \A p \in G : m <= raw_df[g][p]
RECURSIVE SumOfMins(_, _)
SumOfMins(G, games) ==
    IF games = {} THEN 0
    ELSE LET g == CHOOSE x \in games : TRUE
         IN  GroupMin(G, g) + SumOfMins(G, games \ {g})

\* record r carries the counts of group G and the mean of the minima, to the
\* tenth
CountsOf(G, r) ==
    LET n == Cardinality(WonTogether(G)) + Cardinality(LostTogether(G))
    IN  /\ r.Wins = Cardinality(WonTogether(G))
        /\ r.Losses = Cardinality(LostTogether(G))
        /\ r.TotalGames = r.Wins + r.Losses
        /\ 2 * Abs(r.AvgPoints * n
                   - 10 * SumOfMins(G, WonTogether(G) \cup LostTogether(G))) <= n

PairsOfPlayers ==
    {G \in SUBSET SeqToSet(StatsPlayers) : Cardinality(G) = 2}
PairRecords(agg, G) ==
    {i \in DOMAIN agg : {agg[i].Player_x, agg[i].Player_y} = G}

\* C12: before the threshold filter, the record of every pair of distinct
\* players has Wins = rounds where both scored > 0, Losses = rounds where both
\* scored <= 0, TotalGames = Wins + Losses and AvgPoints = the mean over those
\* rounds of the smaller of the two scores, to one decimal; rounds with the
\* two on opposite sides contribute nothing (a pair never on the same side has
\* no record).
C12_PairRecord ==
    stats_pc = "done" =>
        \A G \in PairsOfPlayers :
            IF WonTogether(G) \cup LostTogether(G) = {}
            THEN PairRecords(stats.pw_agg, G) = {}
            ELSE /\ PairRecords(stats.pw_agg, G) # {}
                 /\ \A i \in PairRecords(stats.pw_agg, G) :
                        CountsOf(G, stats.pw_agg[i])

\* A and B won together twice, with minima 120 and 80, lost together once and
\* were on opposite sides once
C12_Witness ==
    /\ stats_pc = "done"
    /\ Len(raw_df) = 4
    /\ \E i \in DOMAIN stats.pw_agg :
         /\ stats.pw_agg[i].Player_x = "A" /\ stats.pw_agg[i].Player_y = "B"
         /\ stats.pw_agg[i].Wins = 2 /\ stats.pw_agg[i].Losses = 1
         /\ stats.pw_agg[i].TotalGames = 3
         /\ stats.pw_agg[i].AvgPoints = 667
    /\ \E g \in DOMAIN raw_df : raw_df[g]["B"] > 0 /\ raw_df[g]["A"] = 0


\* ------------------------------------------------------------------ C13
TriplesOfPlayers ==
    {G \in SUBSET SeqToSet(StatsPlayers) : Cardinality(G) = 3}
TripleRecords(agg, G) ==
    {i \in DOMAIN agg : {agg[i].Player_x, agg[i].Player_y, agg[i].Player_z} = G}

\* C13: the record of every triple of distinct players has Wins = rounds
\* where all three scored > 0, Losses = rounds where all three scored <= 0,
\* TotalGames = Wins + Losses and AvgPoints = the mean over those rounds of
\* the smallest of the three scores; only triples with TotalGames >= 5 are
\* emitted.
C13_TripleRecord ==
    stats_pc = "done" =>
        /\ \A G \in TriplesOfPlayers :
              /\ \A i \in TripleRecords(stats.trio_agg, G) :
                    CountsOf(G, stats.trio_agg[i])
              /\ \A i \in TripleRecords(stats.trio, G) :
                    CountsOf(G, stats.trio[i])
              /\ (WonTogether(G) \cup LostTogether(G) # {}) =>
                    TripleRecords(stats.trio_agg, G) # {}
        /\ \A i \in DOMAIN stats.trio :
              /\ stats.trio[i].TotalGames >= 5
              /\ \E G \in TriplesOfPlayers : i \in TripleRecords(stats.trio, G)

\* the three won together three times (minima 80, 80, 80 with scores 120,
\* 120, 80 among them), lost together twice, and one more round split them:
\* the triple is emitted with five games
C13_Witness ==
    /\ stats_pc = "done"
    /\ Len(raw_df) = 6
    /\ \E g \in DOMAIN raw_df : raw_df[g]["A"] = 120 /\ raw_df[g]["C"] = 80
    /\ Len(stats.trio) = 1
    /\ stats.trio[1].Wins = 3 /\ stats.trio[1].Losses = 2
    /\ stats.trio[1].TotalGames = 5
    /\ stats.trio[1].AvgPoints = 480
    /\ stats.trio[1].WinPercentage = 600

\* four shared rounds: the triple has a record but is not emitted
C13_BelowThreshold ==
    /\ stats_pc = "done"
    /\ Len(stats.trio_agg) = 1 /\ stats.trio_agg[1].TotalGames = 4
    /\ stats.trio = <<>>


\* ------------------------------------------------------------------ C14
\* C14: every row of the pair statistics has Player_x < Player_y and no pair
\* of players has more than one row; every row of the triple statistics has
\* Player_x < Player_y < Player_z and no triple has more than one row; a
\* same-side round of a group counts exactly once in its TotalGames.
C14_Dedup ==
    stats_pc = "done" =>
        /\ \A agg \in {stats.pw_agg, stats.pairwise} :
              /\ \A i \in DOMAIN agg : NameLess(agg[i].Player_x, agg[i].Player_y)
              /\ \A G \in PairsOfPlayers :
                    /\ Cardinality(PairRecords(agg, G)) <= 1
                    /\ \A i \in PairRecords(agg, G) :
                          agg[i].TotalGames =
                              Cardinality(WonTogether(G) \cup LostTogether(G))
        /\ \A agg \in {stats.trio_agg, stats.trio} :
              /\ \A i \in DOMAIN agg :
                    /\ NameLess(agg[i].Player_x, agg[i].Player_y)
                    /\ NameLess(agg[i].Player_y, agg[i].Player_z)
              /\ \A G \in TriplesOfPlayers :
                    /\ Cardinality(TripleRecords(agg, G)) <= 1
                    /\ \A i \in TripleRecords(agg, G) :
                          agg[i].TotalGames =
                              Cardinality(WonTogether(G) \cup LostTogether(G))

\* a sheet whose columns are in the order B, A, C gives the three pairs A-B,
\* A-C, B-C and the triple A-B-C, one row each, the triple with all its six
\* rounds
C14_Witness ==
    /\ stats_pc = "done"
    /\ Len(raw_df) = 6
    /\ Len(stats.pw_agg) = 3
    /\ {<<stats.pw_agg[i].Player_x, stats.pw_agg[i].Player_y>> : i \in DOMAIN stats.pw_agg}
          = {<<"A", "B">>, <<"A", "C">>, <<"B", "C">>}
    /\ Len(stats.trio) = 1
    /\ stats.trio[1].Player_x = "A" /\ stats.trio[1].Player_y = "B"
    /\ stats.trio[1].Player_z = "C"
    /\ stats.trio[1].TotalGames = 6


\* ------------------------------------------------------------------ C15
\* C15: the pair statistics emit exactly the pairs with TotalGames >= 10, and
\* the emitted rows are in non-increasing order of WinPercentage.
C15_ThresholdAndOrder ==
    stats_pc = "done" =>
        /\ \A G \in PairsOfPlayers :
              PairRecords(stats.pairwise, G) # {}
                 <=> Cardinality(WonTogether(G) \cup LostTogether(G)) >= 10
        /\ \A i \in DOMAIN stats.pairwise :
              stats.pairwise[i].TotalGames >= 10
        /\ \A i, j \in DOMAIN stats.pairwise :
              i < j => stats.pairwise[i].WinPercentage >= stats.pairwise[j].WinPercentage

\* eleven rounds: two pairs have exactly ten same-side rounds and are emitted,
\* the better one first although it is the later one in group order; the
\* third pair has nine and is dropped
C15_Witness ==
    /\ stats_pc = "done"
    /\ Len(raw_df) = 11
    /\ Len(stats.pw_agg) = 3
    /\ Len(stats.pairwise) = 2
    /\ stats.pairwise[1].TotalGames = 10 /\ stats.pairwise[2].TotalGames = 10
    /\ stats.pairwise[1].WinPercentage > stats.pairwise[2].WinPercentage
    /\ GroupKeyLess(stats.pairwise[2], stats.pairwise[1])
    /\ \E i \in DOMAIN stats.pw_agg : stats.pw_agg[i].TotalGames = 9


\* ------------------------------------------------------------------ C16
\* the rounds of the sheet that qualify for a heuristic bid-and-won event
Qualifying ==
    {g \in DOMAIN raw_df :
        /\ RowMax(raw_df[g], StatsPlayers) > 0
        /\ RowTotal(raw_df[g], StatsPlayers) % RowMax(raw_df[g], StatsPlayers) # 0}

\* the counts credit one event per qualifying round, to a holder of its
\* maximum, and nothing else
OneCreditPerRound(counts) ==
    /\ SumSeq([i \in DOMAIN StatsPlayers |-> counts[StatsPlayers[i]]])
          = Cardinality(Qualifying)
    /\ \A p \in SeqToSet(StatsPlayers) :
          counts[p] <= Cardinality({g \in Qualifying :
                           raw_df[g][p] = RowMax(raw_df[g], StatsPlayers)})

\* C16: in each round with maxScore > 0 and total mod maxScore # 0 exactly one
\* heuristic bid-and-won event is credited, to a player holding maxScore; in
\* every other round nobody is credited, and no round raises (a round with
\* maxScore = 0 and a round with several players at maxScore included); in
\* get_bid_and_won_stats of process_data.py and of utils/data_cruncher.py.
C16_OneCreditPerQualifyingRound ==
    stats_pc = "done" =>
        /\ OneCreditPerRound(stats.bid_and_won)
        /\ ~stats.cruncher_bid_and_won.raised
        /\ OneCreditPerRound(stats.cruncher_bid_and_won.counts)


\* ------------------------------------------------------------------ C17
\* the rounds handed to record_game in which p took part and that had both a
\* winner and a loser
UrsCounted(p) ==
    Cardinality({i \in DOMAIN urs.history :
        /\ p \in DOMAIN urs.history[i]
        /\ \E q \in DOMAIN urs.history[i] : urs.history[i][q] > 0
        /\ \E q \in DOMAIN urs.history[i] : ~(urs.history[i][q] > 0)})

\* C17: addTournamentData never raises on integer score rows: a round in
\* which nobody scored > 0, or everybody did, is handled without error and
\* changes no rating and no career counter, and the rounds after it are
\* still processed.
C17_DegenerateRoundsHandled ==
    /\ urs.pc # "raised"
    /\ \A p \in DOMAIN urs.player_map :
          urs.player_map[p].careerGames = UrsCounted(p)


\* ------------------------------------------------------------------ C18
\* the number of tournaments compute_overall_rankings has processed
Processed == Cardinality(DOMAIN tourney_snapshots)

\* entry e (in tenths) is the rating r (in hundredths) to one decimal
ToOneDecimal(e, r) == 2 * Abs(10 * e - r) <= 10

\* C18: after k processed tournaments every core player's rating_history has
\* k + 1 entries; entry 0 is the base rating 1000; the entry a tournament
\* appends is the player's live rating right after it, to one decimal, or the
\* base rating while the player is not registered; entries are never changed
\* afterwards.
C18_RatingHistory ==
    [][\A p \in SeqToSet(CORE_PLAYERS) :
         /\ Len(rating_history'[p]) = Processed' + 1
         /\ rating_history'[p][1] = 10000
         /\ \A i \in DOMAIN rating_history[p] :
               rating_history'[p][i] = rating_history[p][i]
         /\ Processed' # Processed =>
               /\ Processed' = Processed + 1
               /\ IF p \in Keys(player_map')
                  THEN /\ heap'[Get(player_map', p)] = heap[Get(player_map, p)]
                       /\ ToOneDecimal(rating_history'[p][Processed' + 1],
                                       heap'[Get(player_map', p)].rating)
                  ELSE rating_history'[p][Processed' + 1] = 10000]_vars

\* two tournaments: A's rating moved in both, B joined in the second only and
\* stood at the base rating after the first
C18_Witness ==
    /\ pc = "idle"
    /\ Processed = 2
    /\ Len(rating_history["A"]) = 3 /\ Len(rating_history["B"]) = 3
    /\ rating_history["A"][2] # 10000
    /\ rating_history["A"][3] # rating_history["A"][2]
    /\ rating_history["B"][2] = 10000
    /\ rating_history["B"][3] # 10000
    /\ ToOneDecimal(rating_history["B"][3], Prof("B").rating)
    /\ Prof("B").rating % 10 # 0


\* ------------------------------------------------------------------ C19
\* C19: a skipped round (no winner or no loser) leaves every field of every
\* profile unchanged; a named bidder of a skipped round gets no bid attempt,
\* and a skipped first round of a tournament does not reset the streaks nor
\* move currentTournament.
C19_SkippedRoundChangesNothing ==
    [][(RoundStep /\ Skipped(LastRow', tourney.players)) =>
          /\ player_map' = player_map
          /\ \A p \in Keys(player_map) : Prof(p)' = Prof(p)
          /\ heap' = heap]_vars

\* the first round of A's second tournament is skipped with A as the named
\* bidder: A keeps the win streak and the tournament key of the first
\* tournament and has no bid attempt
C19_Witness ==
    /\ pc = "rounds"
    /\ tourney.hasBidder
    /\ Len(rows) = 1
    /\ Skipped(rows[1], tourney.players)
    /\ rows[1].bidder = "A"
    /\ Prof("A").careerGames = 1
    /\ Prof("A").winStreak = 1
    /\ Prof("A").currentTournament # tourney.key
    /\ Prof("A").currentTournament # NoTournament
    /\ Prof("A").bidAttempts = 0


\* ------------------------------------------------------------------ C20
\* C20: after a processed round every player of it has exactly one non-zero
\* streak: winStreak >= 1 and lossStreak = 0 after a win, lossStreak >= 1 and
\* winStreak = 0 after a loss; no profile, live or copied, ever has both
\* streaks above 0.
C20_StreakExclusivity ==
    [][/\ \A r \in DOMAIN heap' :
             ~(heap'[r].winStreak > 0 /\ heap'[r].lossStreak > 0)
       /\ (RoundStep /\ ~Skipped(LastRow', tourney.players)) =>
             \A p \in Players :
                IF LastRow'.scores[p] > 0
                THEN Prof(p)'.winStreak >= 1 /\ Prof(p)'.lossStreak = 0
                ELSE Prof(p)'.lossStreak >= 1 /\ Prof(p)'.winStreak = 0]_vars

\* within one tournament A turned two losses into a win and B two wins into
\* a loss
C20_Witness ==
    /\ pc = "rounds"
    /\ Len(rows) = 3
    /\ Prof("A").winStreak = 1 /\ Prof("A").lossStreak = 0
    /\ Prof("A").worstLossStreak = 2
    /\ Prof("B").lossStreak = 1 /\ Prof("B").winStreak = 0
    /\ Prof("B").bestWinStreak = 2


\* ------------------------------------------------------------------ C21
\* load_tournaments_from_history feeds the chronological list in order: the
\* type of the tournament the rating system is in
UrsTourneyType == TourneyType(Len(urs.tournaments))

\* this step is a record_game that returned; UrsLastRow' is its row
UrsRoundStep == urs.pc = "rounds" /\ urs'.pc = "rounds" /\ urs'.fed = urs.fed + 1
UrsLastRow == urs.history[Len(urs.history)]

\* avg_winning_rating - avg_losing_rating, a fraction of hundredths
rating_difference(pm, row, players) ==
    LET w  == urs_winning_team(row, players)
        l  == urs_losing_team(row, players)
        sw == SumSeq([i \in DOMAIN w |-> pm[w[i]].rating])
        sl == SumSeq([i \in DOMAIN l |-> pm[l[i]].rating])
    IN  [num |-> sw * Len(l) - sl * Len(w), den |-> Len(w) * Len(l)]

\* C21: the round multiplier is (tournamentWeight / 200) x (1 - w), w the
\* rating difference / 1000 clamped into [-0.5, 0.5], and the tournament
\* weight (1.0 or 0.75 by type) scales every rating change of the round: in
\* the rating system of utils/ranking_system.py every player of a recorded
\* round moves by points x that multiplier, to the hundredth.
C21_WeightScalesEveryChange ==
    [][UrsRoundStep =>
         LET row == UrsLastRow'
             w   == urs_winning_team(row, urs.players)
             bid == MinSeq([i \in DOMAIN w |-> row[w[i]]])
             m   == get_adjustment_multiplier(
                        rating_difference(urs.player_map, row, urs.players),
                        TOURNAMENT_WEIGHTS(UrsTourneyType))
         IN  \A p \in SeqToSet(urs.players) :
                LET old == urs.player_map[p].rating
                    new == urs'.player_map[p].rating
                    moved == IF row[p] > 0 THEN new - old ELSE old - new
                    pts == IF row[p] > 0 THEN row[p] ELSE bid
                IN  2 * Abs(moved * m.den - pts * m.num) <= m.den]_vars


\* ------------------------------------------------------------------ C22
\* the mean rating of the winners minus that of the losers of row, over the
\* ratings before the round, as a fraction of hundredths
MeanDiffBefore(row) ==
    LET W  == {p \in Players : row.scores[p] > 0}
        L  == Players \ W
        sw == SumSeq([i \in DOMAIN tourney.players |->
                        IF tourney.players[i] \in W
                        THEN Prof(tourney.players[i]).rating ELSE 0])
        sl == SumSeq([i \in DOMAIN tourney.players |->
                        IF tourney.players[i] \in L
                        THEN Prof(tourney.players[i]).rating ELSE 0])
    IN  [num |-> sw * Cardinality(L) - sl * Cardinality(W),
         den |-> Cardinality(W) * Cardinality(L)]

\* C22: in a processed round one multiplier, computed from the mean ratings
\* of the winners and of the losers as they were before the round, moves
\* every participant: a winner with score s gains s x multiplier, a loser
\* loses bid x multiplier (bid the lowest winning score), each to the
\* hundredth; what the winners gain in the round does not enter the multiplier
\* of later winners or of the losers; the losers' careerWins stay.
C22_OneMultiplierPerRound ==
    [][(RoundStep /\ ~Skipped(LastRow', tourney.players)) =>
         LET row == LastRow'
             bid == MinSeq(winning_points(row, tourney.players))
             m   == get_adjustment_multiplier(MeanDiffBefore(row),
                                              TOURNAMENT_WEIGHTS(tourney.type))
         IN  \A p \in Players :
                IF row.scores[p] > 0
                THEN 2 * Abs((Prof(p)'.rating - Prof(p).rating) * m.den
                             - row.scores[p] * m.num) <= m.den
                ELSE /\ 2 * Abs((Prof(p).rating - Prof(p)'.rating) * m.den
                                - bid * m.num) <= m.den
                     /\ Prof(p)'.careerWins = Prof(p).careerWins]_vars

\* winners A (120) and B (80) were 12.40 ahead of the loser C: the pre-round
\* multiplier gives B 0.39504, i.e. 0.40, and takes 0.40 from C; a multiplier
\* taken after A's and B's gains would give 0.39
C22_Witness ==
    /\ pc = "rounds" /\ tourney.type = "championship"
    /\ Players = {"A", "B", "C"}
    /\ Len(rows) = 1
    /\ rows[1].scores["A"] = 120 /\ rows[1].scores["B"] = 80
    /\ rows[1].scores["C"] = 0
    /\ AtStart("A").rating = 100620 /\ AtStart("B").rating = 100620
    /\ AtStart("C").rating = 99380
    /\ Prof("A").rating = 100620 + 59
    /\ Prof("B").rating = 100620 + 40
    /\ Prof("C").rating = 99380 - 40
    /\ Prof("C").careerWins = AtStart("C").careerWins


\* ------------------------------------------------------------------ C23
\* the winners of a row and the lowest score among them
WinnersOf(row) == {p \in Players : row.scores[p] > 0}
LowestWinningScore(row) ==
    CHOOSE s \in {row.scores[p] : p \in WinnersOf(row)} :
        \A q \in WinnersOf(row) : s <= row.scores[q]

\* C23: in a processed round bidAndWon of a winner goes up by 1 if and only
\* if the winner's score is strictly above the bid (the lowest winning score);
\* it never goes up for a loser; so at least one winner keeps bidAndWon, and
\* when all winners have the same score nobody's bidAndWon changes.
C23_BidAndWonStrictlyAboveBid ==
    [][(RoundStep /\ ~Skipped(LastRow', tourney.players)) =>
         LET row == LastRow'
             bid == LowestWinningScore(row)
         IN  /\ \A p \in Players :
                   Prof(p)'.bidAndWon =
                       Prof(p).bidAndWon
                       + (IF p \in WinnersOf(row) /\ row.scores[p] > bid THEN 1 ELSE 0)
             /\ \E p \in WinnersOf(row) : Prof(p)'.bidAndWon = Prof(p).bidAndWon
             /\ (\A p, q \in WinnersOf(row) : row.scores[p] = row.scores[q]) =>
                   \A n \in Keys(player_map) : Prof(n)'.bidAndWon = Prof(n).bidAndWon]_vars

\* A 120 and B 80 beat C, then A 80 and B 80 beat C: A was credited once, in
\* the first round only; B and C never
C23_Witness ==
    /\ pc = "rounds"
    /\ Players = {"A", "B", "C"}
    /\ Len(rows) = 2
    /\ rows[1].scores["A"] = 120 /\ rows[1].scores["B"] = 80
    /\ rows[2].scores["A"] = 80 /\ rows[2].scores["B"] = 80
    /\ Prof("A").careerWins = AtStart("A").careerWins + 2
    /\ Prof("B").careerWins = AtStart("B").careerWins + 2
    /\ Prof("A").bidAndWon = AtStart("A").bidAndWon + 1
    /\ Prof("B").bidAndWon = AtStart("B").bidAndWon
    /\ Prof("C").bidAndWon = AtStart("C").bidAndWon


\* ------------------------------------------------------------------ C24
\* this step is a processed round of a tournament with a Bidder column, and n
\* is the bidder its row names
NamedIn(n) ==
    /\ RoundStep
    /\ ~Skipped(LastRow', tourney.players)
    /\ tourney.hasBidder
    /\ n \in Players
    /\ LastRow'.bidder = n

\* C24: in a processed round of a tournament with a Bidder column the named
\* bidder gets bidAttempts + 1, and bidWins + 1 if and only if the bidder is
\* one of the round's winners; every other player's bidAttempts and bidWins
\* are unchanged; in a tournament without a Bidder column (as in any other
\* step) nobody's bidAttempts or bidWins changes.
C24_NamedBidderCounters ==
    [][\A n \in Keys(player_map) :
          /\ Prof(n)'.bidAttempts =
                Prof(n).bidAttempts + (IF NamedIn(n) THEN 1 ELSE 0)
          /\ Prof(n)'.bidWins =
                Prof(n).bidWins
                + (IF NamedIn(n) /\ LastRow'.scores[n] > 0 THEN 1 ELSE 0)]_vars

\* a tournament with a Bidder column: A bid and won while B lost, then A bid
\* and lost while B won
C24_Witness ==
    /\ pc = "rounds" /\ tourney.hasBidder
    /\ Len(rows) = 2
    /\ rows[1].bidder = "A" /\ rows[1].scores["A"] > 0 /\ rows[1].scores["B"] = 0
    /\ rows[2].bidder = "A" /\ rows[2].scores["A"] = 0 /\ rows[2].scores["B"] > 0
    /\ Prof("A").bidAttempts = 2 /\ Prof("A").bidWins = 1
    /\ Prof("B").bidAttempts = 0 /\ Prof("B").bidWins = 0
    /\ Prof("B").careerWins = 1

\* a tournament without a Bidder column: A won a round, no counter moved
C24_NoBidderColumn ==
    /\ pc = "rounds" /\ ~tourney.hasBidder
    /\ Len(rows) = 1
    /\ Prof("A").careerWins = 1
    /\ \A n \in Keys(player_map) : Prof(n).bidAttempts = 0 /\ Prof(n).bidWins = 0


\* ------------------------------------------------------------------ C25
\* the rounds of a sheet, grouped by kind
GroupedByKind(df) ==
    LET of(k) == SelectSeq(df, LAMBDA r : KindOf(r) = k)
    IN  of(1) \o of(2) \o of(3) \o of(4) \o of(5) \o of(6)

\* C25: the pairwise and triple same-side outputs of a tournament do not
\* depend on the order of its rounds: however the rounds are permuted, the
\* set of emitted records (players, Wins, Losses, TotalGames, AvgPoints,
\* WinPercentage) is the one the rounds give in any other order - here, the
\* order that groups them by kind.
C25_OrderIndependent ==
    stats_pc = "done" =>
        /\ SeqToSet(stats.pairwise) =
              SeqToSet(get_pairwise_stats(GroupedByKind(raw_df), StatsPlayers,
                                          PAIR_MIN_GAMES))
        /\ SeqToSet(stats.trio) =
              SeqToSet(get_tri_stats(GroupedByKind(raw_df), StatsPlayers,
                                     TRIO_MIN_GAMES))

\* a sheet whose first round is the one A and B lost to C and whose last is
\* the one C lost to A and B; a pair and the triple are listed
C25_Witness ==
    /\ stats_pc = "done"
    /\ raw_df[1] = RowKinds[5]
    /\ raw_df[Len(raw_df)] = RowKinds[4]
    /\ raw_df # GroupedByKind(raw_df)
    /\ \E r \in SeqToSet(stats.pairwise) : r.Losses = 1 /\ r.Wins >= 9
    /\ \E r \in SeqToSet(stats.trio) : r.TotalGames >= TRIO_MIN_GAMES


\* ------------------------------------------------------------------ C26
\* this step enters a tournament (the snapshot before, then get_profile for
\* each of its players)
TournamentStartStep == pc = "idle" /\ pc' = "rounds"

\* rating 1000 and every counter 0
IsNewProfile(prof) ==
    /\ prof.rating = 100000
    /\ \A f \in {"bidAndWon", "bidAttempts", "bidWins", "careerGames", "careerWins",
                 "winStreak", "bestWinStreak", "lossStreak", "worstLossStreak",
                 "numFivles", "numTenples", "fiveMottes"} : prof[f] = 0

\* C26: a profile is created, with rating 1000 and all counters 0, when its
\* name first appears in the player list of a tournament - at the start of
\* that tournament, whatever its rounds turn out to be - and never at another
\* moment; a name has one profile, which is not created again and never
\* removed: the set of known names never shrinks.
C26_ProfileLifecycle ==
    [][/\ \A n \in Keys(player_map) :
             /\ n \in Keys(player_map')
             /\ Get(player_map', n) = Get(player_map, n)
             /\ TournamentStartStep => Prof(n)' = Prof(n)
       /\ Keys(player_map') \ Keys(player_map) =
             IF TournamentStartStep
             THEN SeqToSet(tourney'.players) \ Keys(player_map)
             ELSE {}
       /\ \A n \in Keys(player_map') \ Keys(player_map) : IsNewProfile(Prof(n)')
       /\ Len(player_map') = Cardinality(Keys(player_map'))]_vars

\* C was registered by a first tournament whose rounds were all skipped and
\* is still known, untouched, in the second tournament, which C does not play
C26_Witness ==
    /\ pc = "rounds" /\ li = 1
    /\ fed >= 1 /\ rows = <<>>
    /\ "C" \in Keys(player_map) /\ "C" \notin Players
    /\ \A n \in Keys(player_map) : Prof(n).careerGames = 0
    /\ IsNewProfile(Prof("C"))


\* ------------------------------------------------------------------ C27
\* C27: careerGames, careerWins, bidAndWon, bestWinStreak, worstLossStreak,
\* numFivles, numTenples and fiveMottes of a profile never decrease;
\* bestWinStreak is the maximum winStreak has taken so far and
\* worstLossStreak the maximum of lossStreak (each step keeps the larger of
\* the old maximum and the new streak, starting from 0 and 0), and the reset
\* of the streaks at a tournament boundary lowers neither maximum.
C27_MonotoneCountersRunningMaxima ==
    [][/\ \A n \in Keys(player_map) :
             /\ \A f \in {"careerGames", "careerWins", "bidAndWon", "bestWinStreak",
                          "worstLossStreak", "numFivles", "numTenples", "fiveMottes"} :
                    Prof(n)'[f] >= Prof(n)[f]
             /\ Prof(n)'.bestWinStreak =
                    Max(Prof(n).bestWinStreak, Prof(n)'.winStreak)
             /\ Prof(n)'.worstLossStreak =
                    Max(Prof(n).worstLossStreak, Prof(n)'.lossStreak)
       /\ \A n \in Keys(player_map') \ Keys(player_map) :
             /\ Prof(n)'.bestWinStreak = 0 /\ Prof(n)'.winStreak = 0
             /\ Prof(n)'.worstLossStreak = 0 /\ Prof(n)'.lossStreak = 0]_vars

\* A came out of the first tournament on a run of three wins and B of three
\* losses; the first round of the second tournament restarts the streaks at 1
\* and the maxima stay at 3
C27_Witness ==
    /\ pc = "rounds" /\ li = 1
    /\ Len(rows) = 1
    /\ AtStart("A").winStreak = 3 /\ AtStart("B").lossStreak = 3
    /\ Prof("A").currentTournament = tourney.key
    /\ Prof("A").winStreak = 1 /\ Prof("A").bestWinStreak = 3
    /\ Prof("B").lossStreak = 1 /\ Prof("B").worstLossStreak = 3


\* ------------------------------------------------------------------ C28
\* C28: the adjustment factor lies in [0.5, 1.5], so the multiplier of every
\* processed round is strictly positive; in a processed round no winner's
\* rating goes down and no loser's rating goes up.
C28_ChangesHaveTheRightSign ==
    [][(RoundStep /\ ~Skipped(LastRow', tourney.players)) =>
         LET m == adj_mult(heap, player_map, LastRow', tourney)
             w == TOURNAMENT_WEIGHTS(tourney.type)
         IN  /\ m.num > 0 /\ m.den > 0
             \* 1/2 <= multiplier x 200 / weight <= 3/2, the multiplier in
             \* hundredths per point
             /\ 4 * m.num * w.den >= m.den * w.num
             /\ 4 * m.num * w.den <= 3 * m.den * w.num
             /\ \A p \in Players :
                   IF LastRow'.scores[p] > 0
                   THEN Prof(p)'.rating >= Prof(p).rating
                   ELSE Prof(p)'.rating <= Prof(p).rating]_vars

\* A and B at 1600 beat C at 400, 1200 below them: the factor is held at 0.5,
\* A (120) gains 0.30 and C loses 0.20
C28_Witness ==
    /\ pc = "rounds" /\ tourney.type = "championship"
    /\ Players = {"A", "B", "C"}
    /\ Len(rows) = 1
    /\ rows[1].scores["A"] = 120 /\ rows[1].scores["B"] = 80
    /\ rows[1].scores["C"] = 0
    /\ AtStart("A").rating = 160000 /\ AtStart("C").rating = 40000
    /\ Prof("A").rating = 160030
    /\ Prof("B").rating = 160020
    /\ Prof("C").rating = 39980


\* ------------------------------------------------------------------ C29
\* compute_core_players orders the core list by the number of file rows of
\* the tournaments a player is listed in, descending, first listed first among
\* equals. A is listed in every tournament of the feed, so the list is A, B
\* if A was listed before B, or if a tournament with rows (here the last one)
\* does not list B
CoreListAsComputed ==
    LET pos(n) == CHOOSE i \in DOMAIN player_map : player_map[i][1] = n
    IN  \/ pos("A") < pos("B")
        \/ ("B" \notin Players /\ rows # <<>>)

\* the run is over, it processed a tournament, every core player has a
\* profile and the core list is the one computed for this run
RunOverAllCoreRegistered ==
    /\ pc = "done"
    /\ tourney.id # NoTournament
    /\ \A p \in SeqToSet(CORE_PLAYERS) : p \in Keys(player_map)
    /\ CoreListAsComputed

\* C29: after the last tournament the rank of every core player in the final
\* rankings equals the player's rankAfter in the snapshot of the last
\* tournament, also when core players have exactly equal ratings.
C29_FinalRanksAgree ==
    RunOverAllCoreRegistered =>
        \A k \in DOMAIN rankings :
            /\ rankings[k].player \in DOMAIN tourney_snapshots[tourney.id]
            /\ tourney_snapshots[tourney.id][rankings[k].player].rankAfter
                  = Some(rankings[k].rank)

\* the first file lists B before A, and A and B won its round together, 80
\* each; the second lists C and A and its round was skipped. A and B are level
\* at 1000.40: the snapshot ranks B first, the final list A
C29_TiedCoreDisagree ==
    /\ RunOverAllCoreRegistered
    /\ Players = {"A", "C"} /\ Len(rows) = 1
    /\ Prof("A").rating = 100040 /\ Prof("B").rating = 100040
    /\ rankings[1].player = "A" /\ rankings[2].player = "B"
    /\ tourney_snapshots[tourney.id]["A"].rankAfter = Some(2)
    /\ tourney_snapshots[tourney.id]["B"].rankAfter = Some(1)


\* ------------------------------------------------------------------ C30
\* C30: every profile, live or copied, always satisfies
\* 0 <= bidAndWon <= careerWins <= careerGames,
\* 0 <= bidWins <= bidAttempts <= careerGames, bidWins <= careerWins,
\* numTenples <= numFivles, winStreak <= bestWinStreak and
\* lossStreak <= worstLossStreak.
C30_CounterOrdering ==
    \A r \in DOMAIN heap :
        LET prof == heap[r]
        IN  /\ 0 <= prof.bidAndWon
            /\ prof.bidAndWon <= prof.careerWins
            /\ prof.careerWins <= prof.careerGames
            /\ 0 <= prof.bidWins
            /\ prof.bidWins <= prof.bidAttempts
            /\ prof.bidAttempts <= prof.careerGames
            /\ prof.bidWins <= prof.careerWins
            /\ prof.numTenples <= prof.numFivles
            /\ prof.winStreak <= prof.bestWinStreak
            /\ prof.lossStreak <= prof.worstLossStreak

\* A bid, won with 120 over a bid of 80, then bid again and lost: every
\* inequality of the two chains is met with room or exactly
C30_Witness ==
    /\ pc = "rounds" /\ tourney.hasBidder
    /\ Len(rows) = 2
    /\ Prof("A").bidAndWon = 1 /\ Prof("A").careerWins = 1
    /\ Prof("A").careerGames = 2
    /\ Prof("A").bidWins = 1 /\ Prof("A").bidAttempts = 2
    /\ Prof("A").winStreak = 0 /\ Prof("A").bestWinStreak = 1
    /\ Prof("A").lossStreak = 1 /\ Prof("A").worstLossStreak = 1

\* a run of ten wins: one Tenple, after one Fivle
C30_TenpleAfterFivle ==
    \E r \in DOMAIN heap :
        heap[r].winStreak = 10 /\ heap[r].numTenples = 1 /\ heap[r].numFivles = 1

====
